---- MODULE Spec2Model ----
(***************************************************************************)
(* Model of the coordination layer of MutilCOM (src/data_manager.py):      *)
(* the port session registry, the per-port log buffers, the send history,  *)
(* the observer list and the annotation engine of class DataManager.       *)
(*                                                                         *)
(* Text is modelled as a sequence of one-character strings, so that the    *)
(* hex conversions and the pattern matching are computed character by      *)
(* character, as the code computes them.                                   *)
(***************************************************************************)
EXTENDS Integers, Sequences, FiniteSets, TLC

(***************************************************************************)
(* Text helpers                                                            *)
(***************************************************************************)

\* The sixteen upper-case hex digits, indexed by value + 1 (format spec 02X).
HexDigits == <<"0","1","2","3","4","5","6","7","8","9","A","B","C","D","E","F">>

LowerHex == <<"a","b","c","d","e","f">>

\* The characters bytes.fromhex skips between two bytes: ASCII whitespace
\* (the vertical tab, which it skips too, has no escape here).
AsciiSpace == {" ", "\t", "\n", "\f", "\r"}

\* str.upper() on one character (the letters that occur in the model).
UpperChar(c) ==
  IF \E i \in 1..6 : LowerHex[i] = c
    THEN HexDigits[10 + (CHOOSE i \in 1..6 : LowerHex[i] = c)]
    ELSE IF c = "g" THEN "G" ELSE c

Upper(s) == [i \in 1..Len(s) |-> UpperChar(s[i])]

\* str.replace(old, "") for a one-character old.
RECURSIVE RemoveChar(_, _)
RemoveChar(s, c) ==
  IF s = <<>> THEN <<>>
  ELSE IF Head(s) = c THEN RemoveChar(Tail(s), c)
       ELSE <<Head(s)>> \o RemoveChar(Tail(s), c)

\* The value of a hex digit character, or 16 when it is none
\* (_PyLong_DigitValue as bytes.fromhex uses it).
DigitValue(c) ==
  IF \E i \in 1..16 : HexDigits[i] = c
    THEN (CHOOSE i \in 1..16 : HexDigits[i] = c) - 1
    ELSE IF \E i \in 1..6 : LowerHex[i] = c
           THEN 9 + (CHOOSE i \in 1..6 : LowerHex[i] = c)
           ELSE 16

\* The result of a conversion that raised ValueError.
ValueError == [ok |-> FALSE, bytes |-> <<>>]

\* bytes.fromhex(s) from position i on: whitespace is skipped in front of a
\* byte (never between its two digits), then two hex digits make one byte.
RECURSIVE FromHexAt(_, _)
FromHexAt(s, i) ==
  IF i > Len(s) THEN [ok |-> TRUE, bytes |-> <<>>]
  ELSE IF s[i] \in AsciiSpace THEN FromHexAt(s, i + 1)
  ELSE IF DigitValue(s[i]) >= 16 THEN ValueError
  ELSE IF i + 1 > Len(s) THEN ValueError
  ELSE IF DigitValue(s[i + 1]) >= 16 THEN ValueError
  ELSE LET rest == FromHexAt(s, i + 2)
       IN  IF ~rest.ok THEN ValueError
           ELSE [ok |-> TRUE,
                 bytes |-> <<16 * DigitValue(s[i]) + DigitValue(s[i + 1])>> \o rest.bytes]

\* The conversion that drops whitespace wherever it stands, inside a byte
\* too.
NotAsciiSpace(c) == c \notin AsciiSpace

FromHex_anyspace(s) == FromHexAt(SelectSeq(s, NotAsciiSpace), 1)

\* bytes.fromhex(s)
FromHex(s) == FromHexAt(s, 1)

\* The two digits in the wrong order.
Hex2_swapped(b) == <<HexDigits[(b % 16) + 1], HexDigits[(b \div 16) + 1]>>

\* f'{byte:02X}'
Hex2(b) == <<HexDigits[(b \div 16) + 1], HexDigits[(b % 16) + 1]>>

\* ' '.join(parts) for a sequence of texts.
RECURSIVE Join(_, _)
Join(sep, parts) ==
  IF parts = <<>> THEN <<>>
  ELSE IF Len(parts) = 1 THEN parts[1]
  ELSE parts[1] \o sep \o Join(sep, Tail(parts))

\* ' '.join(f'{byte:02X}' for byte in byte_data)
FormatBytes(bs) == Join(<<" ">>, [i \in 1..Len(bs) |-> Hex2(bs[i])])

\* The first index of sub in s, or 0 (str.find + 1).
Find(sub, s) ==
  LET hits == {i \in 1..(Len(s) - Len(sub) + 1) :
                 \A k \in 1..Len(sub) : s[i + k - 1] = sub[k]}
  IN  IF hits = {} THEN 0 ELSE CHOOSE i \in hits : \A j \in hits : i <= j

\* sub in s
Contains(sub, s) == Find(sub, s) # 0

\* str.strip() of blanks.
RECURSIVE LStrip(_)
LStrip(s) == IF s # <<>> /\ Head(s) \in AsciiSpace THEN LStrip(Tail(s)) ELSE s

RECURSIVE RStrip(_)
RStrip(s) ==
  IF s # <<>> /\ s[Len(s)] \in AsciiSpace THEN RStrip(SubSeq(s, 1, Len(s) - 1)) ELSE s

Strip(s) == RStrip(LStrip(s))

(***************************************************************************)
(* Pattern library                                                         *)
(***************************************************************************)

\* The character class [0-9A-F] of the compiled pattern.
HexClass == {HexDigits[i] : i \in 1..16}

\* pattern_to_regex: re.escape makes every character a literal, then each
\* escaped '*' becomes [0-9A-F]{2}. The regular expression is modelled as
\* the sequence of the character classes it matches, one per character.
RECURSIVE pattern_to_regex(_)
pattern_to_regex(pattern) ==
  IF pattern = <<>> THEN <<>>
  ELSE IF Head(pattern) = "*"
         THEN <<HexClass, HexClass>> \o pattern_to_regex(Tail(pattern))
         ELSE <<{Head(pattern)}>> \o pattern_to_regex(Tail(pattern))

\* regex.search(text): the pattern matches somewhere in the text.
RegexSearch(regex, text) ==
  \E i \in 1..(Len(text) - Len(regex) + 1) :
    \A k \in 1..Len(regex) : text[i + k - 1] \in regex[k]

\* code_library[key] = rule on an insertion-ordered dict: a key that is
\* already present keeps its place and takes the new value.
DictPut(lib, rule) ==
  IF \E i \in 1..Len(lib) : lib[i].pattern = rule.pattern
    THEN [i \in 1..Len(lib) |-> IF lib[i].pattern = rule.pattern THEN rule ELSE lib[i]]
    ELSE Append(lib, rule)

\* The body of the loop of load_code_library for one line of the file.
LoadLine(lib, rawline) ==
  LET line == Strip(rawline)
      cut == Find(<<"#">>, line)
      hex_data == Strip(SubSeq(line, 1, cut - 1))
      comment == Strip(SubSeq(line, cut + 1, Len(line)))
  IN  IF line = <<>> \/ Head(line) = "#" THEN lib
      ELSE IF cut = 0 THEN lib
      ELSE IF Contains(<<"*">>, hex_data)
        THEN DictPut(lib, [pattern |-> hex_data, comment |-> comment,
                           regex |-> pattern_to_regex(hex_data), is_pattern |-> TRUE])
        ELSE DictPut(lib, [pattern |-> hex_data, comment |-> comment,
                           regex |-> <<>>, is_pattern |-> FALSE])

\* load_code_library on the lines of the file, in order.
RECURSIVE LoadLines(_, _)
LoadLines(lib, lines) ==
  IF lines = <<>> THEN lib ELSE LoadLines(LoadLine(lib, Head(lines)), Tail(lines))

load_code_library(lines) == LoadLines(<<>>, lines)

\* The label the code puts behind the comment of a wildcard rule
\* (the literal between the comment and the pattern in the f-string of
\* line 323), kept as tokens.
PatternTag == <<" ", "(", "pattern", ":", " ">>

\* The annotations list of annotate_data: the comments of the rules that
\* match hex_part, in library order.
RECURSIVE Annotations(_, _)
Annotations(lib, hex_part) ==
  IF lib = <<>> THEN <<>>
  ELSE LET r == Head(lib)
           rest == Annotations(Tail(lib), hex_part)
       IN  IF r.is_pattern
             THEN IF RegexSearch(r.regex, hex_part)
                    THEN <<r.comment \o PatternTag \o r.pattern \o <<")">> >> \o rest
                    ELSE rest
             ELSE IF Contains(r.pattern, hex_part)
                    THEN <<r.comment>> \o rest
                    ELSE rest

\* annotate_data(data) with the library lib.
annotate_data(lib, data) ==
  LET cut == Find(<<" ", "-", " ">>, data)
      hex_part == IF cut # 0 THEN SubSeq(data, cut + 3, Len(data)) ELSE data
      annotations == Annotations(lib, hex_part)
  IN  IF annotations # <<>>
        THEN data \o <<" ", "(">> \o Join(<<",", " ">>, annotations) \o <<")">>
        ELSE data

(***************************************************************************)
(* State of one DataManager and of the threads that call it                *)
(***************************************************************************)

VARIABLES
  port_states,   \* self.port_states: dict port -> session
  port_data,     \* self.port_data: dict port -> list of entries
  history,       \* self.history: list of canonical texts, newest first
  history_file,  \* the content of send_history.json
  com_settings,  \* self.com_settings: dict port -> settings
  settings_file, \* the content of comsettings.json
  settings_obj,  \* per configured port: which dict object com_settings holds
  code_library,  \* self.code_library: insertion-ordered dict of rules
  observers,     \* self.observers: list of callbacks
  received,      \* per observer: the events its callback was called with
  emitted,       \* the messages the web server has emitted to its clients
  published,     \* history variable: the events passed to notify_observers
  appended,      \* history variable: per port, the entries appended since
                 \* its buffer was last created, deleted or cleared
  clock,         \* the time datetime.now() returns, as a tick count that
                 \* advances with every entry
  lock,          \* self.lock: "free", or the thread that holds it
  loop,          \* per thread: the notify_observers loop it is running
  kinds,         \* per observer: what its callback does when it is called
  pc,            \* per thread: its position in the call it is in, or "idle"
  loc,           \* per thread: the local variables of send_data
  ret,           \* per thread: the outcome of its last finished call
  at_call,       \* history variable: per thread, the history list, the
                 \* buffers and the number of published events when its
                 \* last call began
  nops,          \* number of calls made so far
  threads,       \* main.py self.threads: dict port -> driver thread
  written        \* per port: the byte strings written to the serial device

vars == <<port_states, port_data, history, history_file, com_settings, settings_file,
          settings_obj,
          code_library, observers, received, emitted, published, appended,
          clock, lock, loop, kinds, pc, loc, ret, at_call, nops, threads, written>>

\* The state of the desktop UI and of the serial devices.
gui == <<threads, written>>

\* The part of the state the calls that run as one step leave alone: the
\* configuration, the rules and the observer list, and the lock and the
\* loop positions, which those calls leave as they found them.
conf == <<com_settings, settings_file, settings_obj, code_library, observers, lock,
          loop, kinds>>

Ports == {"X", "Y"}

Threads == {"t1", "t2"}

\* The two registered callbacks; the first one raises on every event.
ObserverIds == {"o1", "o2"}

Raising == {"o1"}

\* len(self.port_data[port]) > 1000
LOG_CAP == 1000

\* len(self.history) > 100
HISTORY_CAP == 100

\* dict helpers: {} , d.get(k, default), d[k] = v
EmptyDict == <<>>

DictGet(d, k, default) == IF k \in DOMAIN d THEN d[k] ELSE default

DictSet(d, k, v) == [x \in (DOMAIN d) \cup {k} |-> IF x = k THEN v ELSE d[x]]

\* del d[k] that removes nothing.
DictDel_keep(d, k) == d

\* del d[k]
DictDel(d, k) == [x \in (DOMAIN d) \ {k} |-> d[x]]

\* x in list
InList(x, list) == \E i \in 1..Len(list) : list[i] = x

\* list[::-1]
Reverse(list) == [i \in 1..Len(list) |-> list[Len(list) + 1 - i]]

(***************************************************************************)
(* Event bus                                                               *)
(***************************************************************************)

\* notify_observers without its try/except: the first raising callback ends
\* the loop and the exception leaves the method.
RECURSIVE notify_observers_nocatch(_, _, _)
notify_observers_nocatch(rcv, obs, ev) ==
  IF obs = <<>> THEN [rcv |-> rcv, exc |-> FALSE]
  ELSE LET called == [rcv EXCEPT ![Head(obs)] = Append(@, ev)]
       IN  IF Head(obs) \in Raising
             THEN [rcv |-> called, exc |-> TRUE]
             ELSE notify_observers_nocatch(called, Tail(obs), ev)

\* notify_observers(event_type, data): every callback of the list obs is
\* called in list order; an exception a callback raises is caught and
\* printed, and the loop goes on. rcv is what each callback has been called
\* with; exc tells whether an exception leaves the method.
RECURSIVE notify_observers(_, _, _)
notify_observers(rcv, obs, ev) ==
  IF obs = <<>> THEN [rcv |-> rcv, exc |-> FALSE]
  ELSE LET called == [rcv EXCEPT ![Head(obs)] = Append(@, ev)]
       IN  notify_observers(called, Tail(obs), ev)

\* An event: its type and the data dict handed to the callbacks.
Event(type, port, data) == [type |-> type, port |-> port, data |-> data]

\* An event whose data holds a dict object the coordinator keeps: obj tells
\* which object it is.
ObjEvent(type, port, data, obj) ==
  [type |-> type, port |-> port, data |-> data, obj |-> obj]

\* The outcome of a finished call: what it returned (val for a bool, seq
\* for a list) or that an exception left it (exc). For send_data, seq is
\* the text the call was given. live tells whether a returned list is the
\* list object the coordinator itself holds.
Ret(op, port, val, exc, seq) ==
  [op |-> op, port |-> port, val |-> val, exc |-> exc, seq |-> seq, live |-> FALSE]

\* A returned reference to the coordinator's own list instead of a copy.
ListCopy_alias(list) == [live |-> TRUE, items |-> list]

\* list.copy(): a new list object with the same elements.
ListCopy(list) == [live |-> FALSE, items |-> list]

\* The outcome of a call that returns the list reference c.
RetList(op, port, c) ==
  [Ret(op, port, FALSE, FALSE, c.items) EXCEPT !.live = c.live]

NoLocals ==
  [port |-> "", data |-> <<>>, formatted_data |-> <<>>, byte_data |-> <<>>,
   sliced |-> <<>>, settings |-> EmptyDict, obj |-> 0]

\* Dict objects are told apart by a number: the dicts json.load built for
\* comsettings.json have the numbers below zero, the session started
\* before the first call has 0, and a dict that is created in or for a call
\* has the number of that call.
FileObj(port) == IF port = "X" THEN -1 ELSE -2

NewObj == nops + 1

\* Thread t, which is in no call, begins one.
BeginCall(t) ==
  /\ pc[t] = "idle"
  /\ nops' = nops + 1
  /\ at_call' = [at_call EXCEPT ![t] =
                  [history |-> history, port_data |-> port_data,
                   npub |-> Len(published)]]

(***************************************************************************)
(* Web server: the observer registered at web_server.py:27                 *)
(***************************************************************************)

\* The callback of main.py and the callback of web_server.py.
GuiObserver == "o1"

WebObserver == "o2"

\* get_available_ports(): one record per serial device the system lists
\* (the devices are the ports of the model), with the stored name and
\* whether the device has a session.
get_available_ports(states, settings) ==
  [device \in Ports |->
     [device |-> device,
      name |-> Strip(DictGet(DictGet(settings, device, EmptyDict), "name", <<>>)),
      active |-> device \in DOMAIN states]]

\* A message to the remote clients: socketio.emit(name, payload).
Message(name, payload) == [name |-> name, payload |-> payload]

\* The data dict of an event as the callbacks get it.
EventData(ev) ==
  CASE ev.type = "port_started" -> [port |-> ev.port, settings |-> ev.data]
    [] ev.type = "settings_updated" -> [port |-> ev.port, settings |-> ev.data]
    [] ev.type = "port_name_updated" -> [port |-> ev.port, name |-> ev.data]
    [] ev.type = "data_received" -> [port |-> ev.port, entry |-> ev.data]
    [] ev.type = "data_sent" ->
         [port |-> ev.port, data |-> ev.data.data, raw_data |-> ev.data.raw_data]
    [] ev.type = "history_updated" -> [history |-> ev.data]
    [] OTHER -> [port |-> ev.port]

\* The data_sent branch that hands the event data on as it is.
EmitSent_all(data) == data

\* web_server.py:169-174: emit_data holds the port and the text only.
EmitSent(data) == [port |-> data.port, data |-> data.data]

\* MultiSerialMonitor.on_data_manager_event for data_sent (main.py:306-313):
\* the raw bytes are written when the port has a driver thread whose serial
\* device is open. w is what has been written so far.
SerialWrite(w, obs, ev, ths) ==
  IF /\ InList(GuiObserver, obs)
     /\ ev.port \in DOMAIN ths
     /\ ths[ev.port].is_open
    THEN [w EXCEPT ![ev.port] = Append(@, ev.data.raw_data)]
    ELSE w

\* WebServer.on_data_manager_event(event_type, data): the messages emitted
\* for one event, in order. The history_update payload is the list itself,
\* kept here under the key history.
web_on_data_manager_event(ev, states, settings) ==
  LET data == EventData(ev)
      ports_update == Message("ports_update", get_available_ports(states, settings))
  IN  CASE ev.type = "port_started" -> <<Message("port_started", data), ports_update>>
        [] ev.type = "port_stopped" -> <<Message("port_stopped", data), ports_update>>
        [] ev.type = "data_received" -> <<Message("data_received", data)>>
        [] ev.type = "data_sent" -> <<Message("data_sent", EmitSent(data))>>
        [] ev.type = "data_cleared" -> <<Message("data_cleared", data)>>
        [] ev.type = "history_updated" ->
             <<Message("history_update", [history |-> data.history])>>
        [] ev.type = "settings_updated" ->
             <<Message("settings_updated", data), ports_update>>
        [] ev.type = "port_name_updated" ->
             <<Message("port_name_updated", data), ports_update>>
        [] OTHER -> <<>>

\* What the clients have been sent once the callbacks of the list obs have
\* been called with ev: the web server emits when its callback is called.
Broadcast(em, obs, ev, states, settings) ==
  IF InList(WebObserver, obs)
    THEN em \o web_on_data_manager_event(ev, states, settings)
    ELSE em

(***************************************************************************)
(* Port session registry                                                   *)
(***************************************************************************)

\* The registry a callback finds when notify_observers runs before the
\* registry is updated.
RegistryAtNotify_before(before, after) == before

\* The registry a callback finds during notify_observers (lines 72 and 91):
\* the one after the update of lines 66-70 and 87-89.
RegistryAtNotify(before, after) == after

\* port in self.port_states, without the test: no port is ever found.
SessionExists_never(port) == FALSE

\* port in self.port_states
SessionExists(port) == port \in DOMAIN port_states

\* start_port_monitoring(port), the whole method under self.lock, as it
\* acts on the state of the coordinator.
start_port_monitoring_locked(t, port) ==
  /\ BeginCall(t)
  /\ IF SessionExists(port)
       THEN /\ ret' = [ret EXCEPT ![t] = Ret("start", port, FALSE, FALSE, <<>>)]
            /\ UNCHANGED <<port_states, port_data, appended, received, emitted, published>>
       ELSE LET settings == DictGet(com_settings, port, EmptyDict)
                \* the dict com_settings holds, or the new {} of line 64
                obj == DictGet(settings_obj, port, NewObj)
                ev == ObjEvent("port_started", port, settings, obj)
                r == notify_observers(received, observers, ev)
            IN  /\ port_states' = DictSet(port_states, port,
                                          [active |-> TRUE, settings |-> settings,
                                           obj |-> obj])
                /\ port_data' = DictSet(port_data, port, <<>>)
                /\ appended' = [appended EXCEPT ![port] = <<>>]
                /\ received' = r.rcv
                /\ emitted' = Broadcast(emitted, observers, ev,
                                        RegistryAtNotify(port_states, port_states'),
                                        com_settings)
                /\ published' = Append(published, ev)
                \* an exception out of the try block is caught: return False
                /\ ret' = [ret EXCEPT ![t] = Ret("start", port, ~r.exc, FALSE, <<>>)]
  /\ UNCHANGED <<history, history_file, conf, clock, pc, loc>>

\* start_port_monitoring(port) called by a caller that keeps no driver
\* threads.
start_port_monitoring(t, port) ==
  /\ start_port_monitoring_locked(t, port)
  /\ UNCHANGED gui

\* stop_port_monitoring(port), the whole method under self.lock, as it acts
\* on the state of the coordinator.
stop_port_monitoring_locked(t, port) ==
  /\ BeginCall(t)
  /\ IF ~SessionExists(port)
       THEN /\ ret' = [ret EXCEPT ![t] = Ret("stop", port, FALSE, FALSE, <<>>)]
            /\ UNCHANGED <<port_states, port_data, appended, received, emitted, published>>
       ELSE LET ev == Event("port_stopped", port, EmptyDict)
                r == notify_observers(received, observers, ev)
            IN  /\ port_states' = DictDel(port_states, port)
                /\ port_data' = DictDel(port_data, port)
                /\ appended' = [appended EXCEPT ![port] = <<>>]
                /\ received' = r.rcv
                /\ emitted' = Broadcast(emitted, observers, ev,
                                        RegistryAtNotify(port_states, port_states'),
                                        com_settings)
                /\ published' = Append(published, ev)
                /\ ret' = [ret EXCEPT ![t] = Ret("stop", port, ~r.exc, r.exc, <<>>)]
  /\ UNCHANGED <<history, history_file, conf, clock, pc, loc>>

\* stop_port_monitoring(port) called by a caller that keeps no driver
\* threads.
stop_port_monitoring(t, port) ==
  /\ stop_port_monitoring_locked(t, port)
  /\ UNCHANGED gui

(***************************************************************************)
(* Desktop UI and remote clients: who starts and stops sessions            *)
(***************************************************************************)

\* toggle_monitoring, checked (main.py:246-255): for a port without a driver
\* thread, the session is started, and when that succeeds a driver thread
\* is created and kept in self.threads; its serial device is not open yet.
toggle_checked(t, port) ==
  /\ port \notin DOMAIN threads
  /\ start_port_monitoring_locked(t, port)
  /\ threads' = IF ret'[t].val THEN DictSet(threads, port, [is_open |-> FALSE])
                ELSE threads
  /\ UNCHANGED written

\* toggle_monitoring, unchecked (main.py:259-267): for a port with a driver
\* thread, the thread is stopped and forgotten and the session is stopped.
toggle_unchecked(t, port) ==
  /\ port \in DOMAIN threads
  /\ stop_port_monitoring_locked(t, port)
  /\ threads' = DictDel(threads, port)
  /\ UNCHANGED written

\* SerialMonitorThread.run, line 96: self.serial.open() in the driver
\* thread of the port.
serial_open(port) ==
  /\ port \in DOMAIN threads
  /\ ~threads[port].is_open
  /\ threads' = [threads EXCEPT ![port] = [is_open |-> TRUE]]
  /\ UNCHANGED <<port_states, port_data, history, history_file, conf, received,
                 emitted, published, appended, clock, pc, loc, ret, at_call, nops,
                 written>>

\* The start_port socket event of a remote client.
handle_start_port(t, port) == start_port_monitoring(t, port)

\* The stop_port socket event of a remote client.
handle_stop_port(t, port) == stop_port_monitoring(t, port)

(***************************************************************************)
(* Port configuration. update_port_settings takes no lock, so its          *)
(* statements are separate steps that other threads may interleave with.   *)
(***************************************************************************)

\* get_port_settings(port): the stored configuration, or the default one.
get_port_settings(port) ==
  DictGet(com_settings, port,
          [name |-> <<>>, baudrate |-> 9600, bytesize |-> 8, parity |-> "N",
           stopbits |-> 1])

\* The end of an update_port_settings call in thread t; exc tells whether
\* an exception leaves it.
UpdateReturn(t, exc) ==
  /\ ret' = [ret EXCEPT ![t] = Ret("update", loc[t].port, FALSE, exc, <<>>)]
  /\ pc' = [pc EXCEPT ![t] = "idle"]
  /\ loc' = [loc EXCEPT ![t] = NoLocals]

\* update_port_settings(port, settings), line 178:
\* self.com_settings[port] = settings
update_port_settings(t, port, settings) ==
  /\ BeginCall(t)
  /\ com_settings' = DictSet(com_settings, port, settings)
  /\ settings_obj' = DictSet(settings_obj, port, NewObj)
  /\ loc' = [loc EXCEPT ![t] = [NoLocals EXCEPT !.port = port, !.settings = settings,
                                               !.obj = NewObj]]
  /\ pc' = [pc EXCEPT ![t] = "update_save"]
  /\ UNCHANGED <<gui, port_states, port_data, history, history_file, settings_file,
                 code_library, observers, received, emitted, published, appended,
                 clock, lock, loop, kinds, ret>>

\* Line 179: self.save_com_settings(self.com_settings)
update_save(t) ==
  /\ pc[t] = "update_save"
  /\ settings_file' = com_settings
  /\ pc' = [pc EXCEPT ![t] = "update_check"]
  /\ UNCHANGED <<gui, port_states, port_data, history, history_file, com_settings, settings_obj,
                 code_library, observers, received, emitted, published, appended,
                 clock, lock, loop, kinds, loc, ret, at_call, nops>>

\* Line 181: if port in self.port_states
update_check(t) ==
  /\ pc[t] = "update_check"
  /\ pc' = [pc EXCEPT ![t] =
              IF SessionExists(loc[t].port) THEN "update_session" ELSE "update_notify"]
  /\ UNCHANGED <<gui, port_states, port_data, history, history_file, com_settings,
                 settings_file, settings_obj, code_library, observers, received, emitted,
                 published, appended, clock, lock, loop, kinds, loc, ret,
                 at_call, nops>>

\* Line 182: self.port_states[port]['settings'] = settings. When the
\* session is gone by now, the lookup raises KeyError, which leaves the
\* method.
update_session(t) ==
  /\ pc[t] = "update_session"
  /\ IF SessionExists(loc[t].port)
       THEN /\ port_states' = [port_states EXCEPT
                                 ![loc[t].port].settings = loc[t].settings,
                                 ![loc[t].port].obj = loc[t].obj]
            /\ pc' = [pc EXCEPT ![t] = "update_notify"]
            /\ UNCHANGED <<loc, ret>>
       ELSE /\ UpdateReturn(t, TRUE)
            /\ UNCHANGED port_states
  /\ UNCHANGED <<gui, port_data, history, history_file, com_settings, settings_file, settings_obj,
                 code_library, observers, received, emitted, published, appended,
                 clock, lock, loop, kinds, at_call, nops>>

\* Lines 184-187: notify_observers('settings_updated', ...) and return.
update_notify(t) ==
  /\ pc[t] = "update_notify"
  /\ LET ev == Event("settings_updated", loc[t].port, loc[t].settings)
         r == notify_observers(received, observers, ev)
     IN  /\ received' = r.rcv
         /\ emitted' = Broadcast(emitted, observers, ev, port_states, com_settings)
         /\ published' = Append(published, ev)
         /\ UpdateReturn(t, r.exc)
  /\ UNCHANGED <<gui, port_states, port_data, history, history_file, com_settings,
                 settings_file, settings_obj, code_library, observers, appended, clock, lock,
                 loop, kinds, at_call, nops>>

\* The steps of an update_port_settings call thread t is in.
UpdateStep(t) ==
  \/ update_save(t)
  \/ update_check(t)
  \/ update_session(t)
  \/ update_notify(t)

\* The event type of a renaming under another name.
NameEventType_settings == "settings_updated"

\* Line 212: the event type update_port_name publishes.
NameEventType == "port_name_updated"

\* d[key] = value on the dict object obj, which is the stored configuration
\* of the ports whose settings_obj is obj.
StoredAfterEdit(obj, key, value) ==
  [p \in DOMAIN com_settings |->
     IF settings_obj[p] = obj THEN DictSet(com_settings[p], key, value)
     ELSE com_settings[p]]

\* The same assignment as the sessions see it: the snapshot of a session
\* changes with the dict when it is that object.
SessionsAfterEdit(obj, key, value) ==
  [p \in DOMAIN port_states |->
     IF port_states[p].obj = obj
       THEN [port_states[p] EXCEPT !.settings = DictSet(@, key, value)]
       ELSE port_states[p]]

\* update_port_name(port, name), lines 201-207: a port without a stored
\* configuration gets a new dict with the four default values.
update_port_name(t, port, name) ==
  /\ BeginCall(t)
  /\ IF port \notin DOMAIN com_settings
       THEN /\ com_settings' = DictSet(com_settings, port,
                                       [baudrate |-> 9600, bytesize |-> 8,
                                        parity |-> "N", stopbits |-> 1])
            /\ settings_obj' = DictSet(settings_obj, port, NewObj)
       ELSE UNCHANGED <<com_settings, settings_obj>>
  /\ loc' = [loc EXCEPT ![t] = [NoLocals EXCEPT !.port = port, !.data = name]]
  /\ pc' = [pc EXCEPT ![t] = "name_set"]
  /\ UNCHANGED <<gui, port_states, port_data, history, history_file, settings_file,
                 code_library, observers, received, emitted, published, appended,
                 clock, lock, loop, kinds, ret>>

\* Line 209: self.com_settings[port]["name"] = name.strip(), an assignment
\* into the dict object that com_settings holds for the port now.
name_set(t) ==
  /\ pc[t] = "name_set"
  /\ LET obj == settings_obj[loc[t].port]
     IN  /\ com_settings' = StoredAfterEdit(obj, "name", Strip(loc[t].data))
         /\ port_states' = SessionsAfterEdit(obj, "name", Strip(loc[t].data))
  /\ pc' = [pc EXCEPT ![t] = "name_save"]
  /\ UNCHANGED <<gui, port_data, history, history_file, settings_file, settings_obj,
                 code_library, observers, received, emitted, published, appended,
                 clock, lock, loop, kinds, loc, ret, at_call, nops>>

\* Line 210: self.save_com_settings(self.com_settings)
name_save(t) ==
  /\ pc[t] = "name_save"
  /\ settings_file' = com_settings
  /\ pc' = [pc EXCEPT ![t] = "name_notify"]
  /\ UNCHANGED <<gui, port_states, port_data, history, history_file, com_settings,
                 settings_obj, code_library, observers, received, emitted,
                 published, appended, clock, lock, loop, kinds, loc, ret,
                 at_call, nops>>

\* Lines 212-215: notify_observers('port_name_updated', ...) with the name
\* as it was given, and return.
name_notify(t) ==
  /\ pc[t] = "name_notify"
  /\ LET ev == Event(NameEventType, loc[t].port, loc[t].data)
         r == notify_observers(received, observers, ev)
     IN  /\ received' = r.rcv
         /\ emitted' = Broadcast(emitted, observers, ev, port_states, com_settings)
         /\ published' = Append(published, ev)
         /\ ret' = [ret EXCEPT ![t] = Ret("update_name", loc[t].port, FALSE, r.exc, <<>>)]
         /\ pc' = [pc EXCEPT ![t] = "idle"]
         /\ loc' = [loc EXCEPT ![t] = NoLocals]
  /\ UNCHANGED <<gui, port_states, port_data, history, history_file, com_settings,
                 settings_file, settings_obj, code_library, observers, appended,
                 clock, lock, loop, kinds, at_call, nops>>

\* The steps of an update_port_name call thread t is in.
NameStep(t) ==
  \/ name_set(t)
  \/ name_save(t)
  \/ name_notify(t)

(***************************************************************************)
(* Log buffers                                                             *)
(***************************************************************************)

\* The eviction with the wrong slice: the first 1000 entries are kept.
TrimLog_head(buf) ==
  IF Len(buf) > LOG_CAP THEN SubSeq(buf, 1, LOG_CAP) ELSE buf

\* if len(buf) > 1000: buf = buf[-1000:]
TrimLog(buf) ==
  IF Len(buf) > LOG_CAP THEN SubSeq(buf, Len(buf) - LOG_CAP + 1, Len(buf)) ELSE buf

\* The entry add_port_data builds at time now: the data field is
\* f"{timestamp} - {annotated_data}", kept as its two parts.
LogEntry(lib, direction, data, now) ==
  [direction |-> direction,
   data |-> [timestamp |-> now, text |-> annotate_data(lib, data)],
   timestamp |-> now]

\* The append without lines 97-98: an entry for a port that has no buffer
\* is dropped.
AppendEntry_nocreate(pd, port, entry) ==
  IF port \in DOMAIN pd THEN DictSet(pd, port, TrimLog(Append(pd[port], entry)))
  ELSE pd

\* The body of add_port_data on the buffers pd: the buffer of the port is
\* created when absent, the entry appended and the buffer trimmed.
AppendEntry(pd, port, entry) ==
  LET buf == IF port \in DOMAIN pd THEN pd[port] ELSE <<>>
  IN  DictSet(pd, port, TrimLog(Append(buf, entry)))

\* add_port_data(port, direction, data), the whole method under self.lock.
add_port_data(t, port, direction, data) ==
  /\ BeginCall(t)
  /\ LET entry == LogEntry(code_library, direction, data, clock)
         ev == Event("data_received", port, entry)
         r == notify_observers(received, observers, ev)
     IN  /\ port_data' = AppendEntry(port_data, port, entry)
         /\ appended' = [appended EXCEPT ![port] = Append(@, entry)]
         /\ clock' = clock + 1
         /\ received' = r.rcv
         /\ emitted' = Broadcast(emitted, observers, ev, port_states, com_settings)
         /\ published' = Append(published, ev)
         /\ ret' = [ret EXCEPT ![t] = Ret("add", port, FALSE, r.exc, <<>>)]
  /\ UNCHANGED <<gui, port_states, history, history_file, conf, pc, loc>>

\* get_port_data(port): a copy of the buffer, taken under self.lock.
get_port_data(t, port) ==
  /\ BeginCall(t)
  /\ ret' = [ret EXCEPT ![t] =
               RetList("get_port_data", port, ListCopy(DictGet(port_data, port, <<>>)))]
  /\ UNCHANGED <<gui, port_states, port_data, history, history_file, conf, received, emitted,
                 published, appended, clock, pc, loc>>

\* clear_port_data(port), the whole method under self.lock.
clear_port_data(t, port) ==
  /\ BeginCall(t)
  /\ IF port \in DOMAIN port_data
       THEN LET ev == Event("data_cleared", port, EmptyDict)
                r == notify_observers(received, observers, ev)
            IN  /\ port_data' = DictSet(port_data, port, <<>>)
                /\ appended' = [appended EXCEPT ![port] = <<>>]
                /\ received' = r.rcv
                /\ emitted' = Broadcast(emitted, observers, ev, port_states, com_settings)
                /\ published' = Append(published, ev)
                /\ ret' = [ret EXCEPT ![t] = Ret("clear", port, FALSE, r.exc, <<>>)]
       ELSE /\ ret' = [ret EXCEPT ![t] = Ret("clear", port, FALSE, FALSE, <<>>)]
            /\ UNCHANGED <<port_data, appended, received, emitted, published>>
  /\ UNCHANGED <<gui, port_states, history, history_file, conf, clock, pc, loc>>

\* get_history(): a copy of the list, taken without the lock.
get_history(t) ==
  /\ BeginCall(t)
  /\ ret' = [ret EXCEPT ![t] = RetList("get_history", "", ListCopy(history))]
  /\ UNCHANGED <<gui, port_states, port_data, history, history_file, conf, received, emitted,
                 published, appended, clock, pc, loc>>

\* The list thread t reads through the reference its last get_port_data
\* or get_history call returned.
Seen(t) ==
  IF ~ret[t].live THEN ret[t].seq
  ELSE IF ret[t].op = "get_history" THEN history
  ELSE DictGet(port_data, ret[t].port, <<>>)

\* The element a caller adds to a list it was returned.
CallerElement(op) ==
  IF op = "get_history" THEN FormatBytes(<<255>>)
  ELSE LogEntry(code_library, "edited", FormatBytes(<<255>>), 0)

\* The caller of thread t changes the list object it was returned: it
\* appends an element (grow) or deletes the first one. The coordinator's
\* list changes with it when the two are one object.
edit_returned(t, grow) ==
  /\ pc[t] = "idle"
  /\ ret[t].op \in {"get_port_data", "get_history"}
  /\ grow \/ Seen(t) # <<>>
  /\ nops' = nops + 1
  /\ LET edited == IF grow THEN Append(Seen(t), CallerElement(ret[t].op))
                   ELSE Tail(Seen(t))
     IN  /\ ret' = [ret EXCEPT ![t].seq = edited]
         /\ IF ret[t].live /\ ret[t].op = "get_history"
              THEN history' = edited /\ UNCHANGED port_data
              ELSE IF ret[t].live /\ ret[t].port \in DOMAIN port_data
                THEN port_data' = DictSet(port_data, ret[t].port, edited)
                     /\ UNCHANGED history
                ELSE UNCHANGED <<port_data, history>>
  /\ UNCHANGED <<gui, port_states, history_file, conf, received, emitted, published,
                 appended, clock, pc, loc, at_call>>

(***************************************************************************)
(* Observers that keep the data of an event and change it later. The data  *)
(* of port_started holds the dict that is the session snapshot (lines      *)
(* 68 and 74), and the data of data_received holds the entry that is in    *)
(* the buffer (lines 115 and 123).                                         *)
(***************************************************************************)

\* The entry of an event, changed by the observer: entry['direction'] = ...
EditedEntry(entry) == [entry EXCEPT !.direction = "edited"]

\* Observer o sets data['settings']['baudrate'] = 1 in the data of a
\* port_started event it has received. The stored configuration and the
\* session snapshots that are this dict object change with it.
observer_edits_settings(o) ==
  /\ \E i \in 1..Len(received[o]) :
       /\ received[o][i].type = "port_started"
       /\ com_settings' = StoredAfterEdit(received[o][i].obj, "baudrate", 1)
       /\ port_states' = SessionsAfterEdit(received[o][i].obj, "baudrate", 1)
  /\ UNCHANGED <<gui, port_data, history, history_file, settings_file, settings_obj,
                 code_library, observers, received, emitted, published, appended,
                 clock, lock, loop, kinds, pc, loc, ret, at_call, nops>>

\* Observer o sets data['entry']['direction'] in the data of a
\* data_received event it has received. The entry is the one built at the
\* time of its timestamp; a buffer that still holds it changes with it.
observer_edits_entry(o) ==
  /\ \E i \in 1..Len(received[o]) :
       /\ received[o][i].type = "data_received"
       /\ port_data' =
            [p \in DOMAIN port_data |->
               [k \in 1..Len(port_data[p]) |->
                  IF port_data[p][k].timestamp = received[o][i].data.timestamp
                    THEN EditedEntry(port_data[p][k])
                    ELSE port_data[p][k]]]
  /\ UNCHANGED <<gui, port_states, history, history_file, conf, received, emitted,
                 published, appended, clock, pc, loc, ret, at_call, nops>>

(***************************************************************************)
(* Send path. send_data takes no lock for its work on self.history, so its *)
(* statements are separate steps that other threads may interleave with;   *)
(* only its call of add_port_data is one step under the lock.              *)
(***************************************************************************)

\* The formatting that keeps the text as typed instead of re-encoding it.
ParseSend_raw(data) ==
  LET formatted_data == Upper(RemoveChar(data, " "))
      byte_data == FromHex(formatted_data)
  IN  [ok |-> byte_data.ok,
       byte_data |-> byte_data.bytes,
       formatted_data |-> formatted_data]

\* Lines 130-132: formatted_data and byte_data for the input text, or the
\* ValueError of bytes.fromhex.
ParseSend(data) ==
  LET formatted_data == Upper(RemoveChar(data, " "))
      byte_data == FromHex(formatted_data)
  IN  [ok |-> byte_data.ok,
       byte_data |-> byte_data.bytes,
       formatted_data |-> FormatBytes(byte_data.bytes)]

\* The membership test that finds nothing: every text counts as new.
InHistory_never(formatted_data) == FALSE

\* formatted_data in self.history
InHistory(formatted_data) == InList(formatted_data, history)

\* The end of a send_data call in thread t with return value val.
SendReturn(t, port, data, val) ==
  /\ ret' = [ret EXCEPT ![t] = Ret("send", port, val, FALSE, data)]
  /\ pc' = [pc EXCEPT ![t] = "idle"]
  /\ loc' = [loc EXCEPT ![t] = NoLocals]

\* send_data(port, data), lines 128-135: the conversion, and the test
\* formatted_data not in self.history. A ValueError is caught at line 156
\* and the call returns False.
send_data(t, port, data) ==
  /\ BeginCall(t)
  /\ LET p == ParseSend(data)
     IN  IF ~p.ok
           THEN SendReturn(t, port, data, FALSE)
           ELSE /\ loc' = [loc EXCEPT ![t] =
                             [port |-> port, data |-> data,
                              formatted_data |-> p.formatted_data,
                              byte_data |-> p.byte_data, sliced |-> <<>>,
                              settings |-> EmptyDict, obj |-> 0]]
                /\ pc' = [pc EXCEPT ![t] =
                            IF ~InHistory(p.formatted_data) THEN "insert" ELSE "log"]
                /\ UNCHANGED ret
  /\ UNCHANGED <<gui, port_states, port_data, history, history_file, conf, received, emitted,
                 published, appended, clock>>

\* Line 136: self.history.insert(0, formatted_data)
send_insert(t) ==
  /\ pc[t] = "insert"
  /\ history' = <<loc[t].formatted_data>> \o history
  /\ pc' = [pc EXCEPT ![t] = "check_len"]
  /\ UNCHANGED <<gui, port_states, port_data, history_file, conf, received, emitted, published,
                 appended, clock, loc, ret, at_call, nops>>

\* Line 137: if len(self.history) > 100
send_check_len(t) ==
  /\ pc[t] = "check_len"
  /\ pc' = [pc EXCEPT ![t] = IF Len(history) > HISTORY_CAP THEN "slice" ELSE "save"]
  /\ UNCHANGED <<gui, port_states, port_data, history, history_file, conf, received, emitted,
                 published, appended, clock, loc, ret, at_call, nops>>

\* Line 138, right-hand side: self.history[:100] is built from the list as
\* it is now.
send_slice(t) ==
  /\ pc[t] = "slice"
  /\ loc' = [loc EXCEPT ![t].sliced = SubSeq(history, 1, HISTORY_CAP)]
  /\ pc' = [pc EXCEPT ![t] = "store"]
  /\ UNCHANGED <<gui, port_states, port_data, history, history_file, conf, received, emitted,
                 published, appended, clock, ret, at_call, nops>>

\* Line 138, assignment: self.history = <the slice>
send_store(t) ==
  /\ pc[t] = "store"
  /\ history' = loc[t].sliced
  /\ pc' = [pc EXCEPT ![t] = "save"]
  /\ UNCHANGED <<gui, port_states, port_data, history_file, conf, received, emitted, published,
                 appended, clock, loc, ret, at_call, nops>>

\* Line 139: self.save_history(self.history)
send_save(t) ==
  /\ pc[t] = "save"
  /\ history_file' = history
  /\ pc' = [pc EXCEPT ![t] = "notify_history"]
  /\ UNCHANGED <<gui, port_states, port_data, history, conf, received, emitted, published,
                 appended, clock, loc, ret, at_call, nops>>

\* Line 139 when the file cannot be written: open() or json.dump raises
\* OSError, which line 156 catches, and the call returns False (line 158).
\* The file is as it was, or it was truncated by open() and holds no list.
send_save_fails(t) ==
  /\ pc[t] = "save"
  /\ \E content \in {history_file, <<>>} : history_file' = content
  /\ SendReturn(t, loc[t].port, loc[t].data, FALSE)
  /\ UNCHANGED <<gui, port_states, port_data, history, conf, received, emitted, published,
                 appended, clock, at_call, nops>>

\* Lines 141-143: notify_observers('history_updated', {'history': self.history})
send_notify_history(t) ==
  /\ pc[t] = "notify_history"
  /\ LET ev == Event("history_updated", "", history)
         r == notify_observers(received, observers, ev)
     IN  /\ received' = r.rcv
         /\ emitted' = Broadcast(emitted, observers, ev, port_states, com_settings)
         /\ published' = Append(published, ev)
         /\ IF r.exc
              THEN SendReturn(t, loc[t].port, loc[t].data, FALSE)
              ELSE /\ pc' = [pc EXCEPT ![t] = "log"]
                   /\ UNCHANGED <<loc, ret>>
  /\ UNCHANGED <<gui, port_states, port_data, history, history_file, conf, appended,
                 clock, at_call, nops>>

\* Line 146: self.add_port_data(port, 'sent', formatted_data), under the lock.
send_log(t) ==
  /\ pc[t] = "log"
  /\ LET entry == LogEntry(code_library, "sent", loc[t].formatted_data, clock)
         ev == Event("data_received", loc[t].port, entry)
         r == notify_observers(received, observers, ev)
     IN  /\ port_data' = AppendEntry(port_data, loc[t].port, entry)
         /\ appended' = [appended EXCEPT ![loc[t].port] = Append(@, entry)]
         /\ clock' = clock + 1
         /\ received' = r.rcv
         /\ emitted' = Broadcast(emitted, observers, ev, port_states, com_settings)
         /\ published' = Append(published, ev)
         /\ IF r.exc
              THEN SendReturn(t, loc[t].port, loc[t].data, FALSE)
              ELSE /\ pc' = [pc EXCEPT ![t] = "notify_sent"]
                   /\ UNCHANGED <<loc, ret>>
  /\ UNCHANGED <<gui, port_states, history, history_file, conf, at_call, nops>>

\* Lines 149-155: notify_observers('data_sent', ...) and return True.
send_notify_sent(t) ==
  /\ pc[t] = "notify_sent"
  /\ LET ev == Event("data_sent", loc[t].port,
                     [data |-> loc[t].formatted_data, raw_data |-> loc[t].byte_data])
         r == notify_observers(received, observers, ev)
     IN  /\ received' = r.rcv
         /\ emitted' = Broadcast(emitted, observers, ev, port_states, com_settings)
         /\ published' = Append(published, ev)
         /\ written' = SerialWrite(written, observers, ev, threads)
         /\ SendReturn(t, loc[t].port, loc[t].data, ~r.exc)
  /\ UNCHANGED <<port_states, port_data, history, history_file, conf, appended,
                 clock, at_call, nops, threads>>

(***************************************************************************)
(* The lock and the publish loop, step by step. A call of add_port_data    *)
(* waits for self.lock, appends, and runs the loop of notify_observers     *)
(* with the lock held; every callback is a step of the calling thread, and *)
(* what a callback does is given per observer by kinds:                    *)
(*   "returns"          it returns                                         *)
(*   "never_returns"    it does not return                                 *)
(*   "removes_self"     it calls remove_observer on itself and returns     *)
(*   "adds_other"       it calls add_observer for a callback that is not   *)
(*                      registered and returns                             *)
(*   "reads_port_data"  it calls get_port_data and returns                 *)
(*   "reads_history"    it calls get_history and returns                   *)
(***************************************************************************)

\* The frame the serial driver reads in the runs that list single calls
\* (main.py:102-110 hands frames over as canonical hex text).
Frame == <<170, 18, 204>>

\* No loop is running.
NoLoop ==
  [port |-> "", ev |-> Event("none", "", EmptyDict), i |-> 0, cur |-> "",
   begin |-> <<>>, called |-> <<>>, removed |-> {}]

\* list.remove(x): the first occurrence of x leaves the list.
RECURSIVE ListRemove(_, _)
ListRemove(list, x) ==
  IF list = <<>> THEN <<>>
  ELSE IF Head(list) = x THEN Tail(list)
  ELSE <<Head(list)>> \o ListRemove(Tail(list), x)

\* History part of loop: the observer o was removed while the loops of
\* the threads ts were running.
NoteRemoved(ts, o) ==
  [t \in Threads |-> IF t \in ts THEN [loop[t] EXCEPT !.removed = @ \cup {o}]
                     ELSE loop[t]]

\* The threads that are inside notify_observers.
Looping == {t \in Threads : pc[t] \in {"loop", "callback"}}

\* add_observer(callback), called by a thread that is in no call.
add_observer(t, o) ==
  /\ BeginCall(t)
  /\ observers' = Append(observers, o)
  /\ ret' = [ret EXCEPT ![t] = Ret("add_observer", "", FALSE, FALSE, <<>>)]
  /\ UNCHANGED <<gui, port_states, port_data, history, history_file, com_settings,
                 settings_file, settings_obj, code_library, received, emitted, published, appended, clock,
                 lock, loop, kinds, pc, loc>>

\* remove_observer(callback), called by a thread that is in no call.
remove_observer(t, o) ==
  /\ BeginCall(t)
  /\ IF InList(o, observers)
       THEN /\ observers' = ListRemove(observers, o)
            /\ loop' = NoteRemoved(Looping, o)
       ELSE UNCHANGED <<observers, loop>>
  /\ ret' = [ret EXCEPT ![t] = Ret("remove_observer", "", FALSE, FALSE, <<>>)]
  /\ UNCHANGED <<gui, port_states, port_data, history, history_file, com_settings,
                 settings_file, settings_obj, code_library, received, emitted, published, appended, clock,
                 lock, kinds, pc, loc>>

\* Thread t calls add_port_data(port, 'received', data) and reaches
\* "with self.lock" (line 96).
add_port_data_call(t, port) ==
  /\ BeginCall(t)
  /\ pc' = [pc EXCEPT ![t] = "acquire"]
  /\ loop' = [loop EXCEPT ![t] = [NoLoop EXCEPT !.port = port]]
  /\ UNCHANGED <<gui, port_states, port_data, history, history_file, com_settings,
                 settings_file, settings_obj, code_library, observers, received, emitted, published, appended,
                 clock, lock, kinds, loc, ret>>

\* Lines 96-121: the lock is taken when it is free, the entry is built and
\* appended, and notify_observers is entered.
add_port_data_locked(t) ==
  /\ pc[t] = "acquire"
  /\ lock = "free"
  /\ lock' = t
  /\ LET entry == LogEntry(code_library, "received", FormatBytes(Frame), clock)
         ev == Event("data_received", loop[t].port, entry)
     IN  /\ port_data' = AppendEntry(port_data, loop[t].port, entry)
         /\ appended' = [appended EXCEPT ![loop[t].port] = Append(@, entry)]
         /\ clock' = clock + 1
         /\ published' = Append(published, ev)
         /\ loop' = [loop EXCEPT ![t] =
                       [@ EXCEPT !.ev = ev, !.i = 0, !.begin = observers]]
  /\ pc' = [pc EXCEPT ![t] = "loop"]
  /\ UNCHANGED <<gui, port_states, history, history_file, com_settings, settings_file, settings_obj,
                 code_library,
                 observers, received, emitted, kinds, loc, ret, at_call, nops>>

\* Line 33, one turn of "for callback in self.observers": the iterator
\* holds an index into the list as it is now; the callback at the index is
\* called (line 35), or the loop ends when the index is past the end.
notify_next(t) ==
  /\ pc[t] = "loop"
  /\ IF loop[t].i < Len(observers)
       THEN LET o == observers[loop[t].i + 1]
            IN  /\ received' = [received EXCEPT ![o] = Append(@, loop[t].ev)]
                /\ emitted' = Broadcast(emitted, <<o>>, loop[t].ev, port_states,
                                        com_settings)
                /\ loop' = [loop EXCEPT ![t] =
                              [@ EXCEPT !.i = @ + 1, !.cur = o,
                                        !.called = Append(@, o)]]
                /\ pc' = [pc EXCEPT ![t] = "callback"]
       ELSE /\ pc' = [pc EXCEPT ![t] = "release"]
            /\ UNCHANGED <<received, emitted, loop>>
  /\ UNCHANGED <<gui, port_states, port_data, history, history_file, com_settings,
                 settings_file, settings_obj, code_library, observers, published, appended, clock, lock,
                 kinds, loc, ret, at_call, nops>>

\* The callback that is running in thread t returns.
callback_return(t) ==
  /\ pc[t] = "callback"
  /\ kinds[loop[t].cur] = "returns"
  /\ pc' = [pc EXCEPT ![t] = "loop"]
  /\ UNCHANGED <<gui, port_states, port_data, history, history_file, com_settings,
                 settings_file, settings_obj, code_library, observers, received, emitted, published, appended,
                 clock, lock, loop, kinds, loc, ret, at_call, nops>>

\* The callback that is running in thread t calls remove_observer on
\* itself (lines 27-28) and returns.
callback_remove_self(t) ==
  /\ pc[t] = "callback"
  /\ kinds[loop[t].cur] = "removes_self"
  /\ IF InList(loop[t].cur, observers)
       THEN /\ observers' = ListRemove(observers, loop[t].cur)
            /\ loop' = NoteRemoved(Looping, loop[t].cur)
       ELSE UNCHANGED <<observers, loop>>
  /\ pc' = [pc EXCEPT ![t] = "loop"]
  /\ UNCHANGED <<gui, port_states, port_data, history, history_file, com_settings,
                 settings_file, settings_obj, code_library, received, emitted, published, appended, clock,
                 lock, kinds, loc, ret, at_call, nops>>

\* The callback that is running in thread t calls add_observer (line 23)
\* for the callbacks that are not registered, and returns.
callback_add_other(t) ==
  /\ pc[t] = "callback"
  /\ kinds[loop[t].cur] = "adds_other"
  /\ observers' = observers \o
                    SelectSeq(<<"o1", "o2">>, LAMBDA o : ~InList(o, observers))
  /\ pc' = [pc EXCEPT ![t] = "loop"]
  /\ UNCHANGED <<gui, port_states, port_data, history, history_file, com_settings,
                 settings_file, settings_obj, code_library, received, emitted, published, appended, clock,
                 lock, loop, kinds, loc, ret, at_call, nops>>

\* The callback that is running in thread t calls a read operation and
\* returns: get_history reads without the lock; get_port_data waits at
\* "with self.lock" (line 162) until the lock is free, copies and frees it.
callback_read(t) ==
  /\ pc[t] = "callback"
  /\ IF kinds[loop[t].cur] = "reads_port_data"
       THEN lock = "free"
       ELSE kinds[loop[t].cur] = "reads_history"
  /\ pc' = [pc EXCEPT ![t] = "loop"]
  /\ UNCHANGED <<gui, port_states, port_data, history, history_file, com_settings,
                 settings_file, settings_obj, code_library, observers, received, emitted, published, appended,
                 clock, lock, loop, kinds, loc, ret, at_call, nops>>

\* The end of "with self.lock" in add_port_data: the lock is freed and the
\* call returns.
add_port_data_return(t) ==
  /\ pc[t] = "release"
  /\ lock' = "free"
  /\ pc' = [pc EXCEPT ![t] = "idle"]
  /\ ret' = [ret EXCEPT ![t] = Ret("add", loop[t].port, FALSE, FALSE, <<>>)]
  /\ UNCHANGED <<gui, port_states, port_data, history, history_file, com_settings,
                 settings_file, settings_obj, code_library, observers, received, emitted, published, appended,
                 clock, loop, kinds, loc, at_call, nops>>

(***************************************************************************)
(* Construction (DataManager.__init__) and the inputs of the model         *)
(***************************************************************************)

\* load_history() for the content of send_history.json (an absent file
\* gives the empty list): the stored list, reversed.
load_history(file) == Reverse(file)

\* The rule file code_library.txt, line by line.
LibraryLines ==
  << <<"D","E"," ","#"," ","h","d","r">>,
     <<"A","A","*","C","C"," ","#"," ","t","e","s","t">> >>

\* A stored configuration of a port (comsettings.json).
PortConfig == [name |-> <<"p","u","m","p">>, baudrate |-> 115200, bytesize |-> 8,
               parity |-> "N", stopbits |-> 1]

\* The contents of comsettings.json the model starts from.
SettingsFiles == {EmptyDict, [p \in {"X"} |-> PortConfig]}

\* A send_history.json that save_history wrote for a full history: 100
\* different canonical texts, DE among them.
FullHistoryFile ==
  [i \in 1..HISTORY_CAP |->
     IF i = 3 THEN FormatBytes(<<222>>) ELSE FormatBytes(<<222, i>>)]

\* The contents of send_history.json the model starts from: no file, and
\* the file of a full history.
HistoryFiles == {<<>>, FullHistoryFile}

\* The state after __init__ and the registration of the two observers
\* (main.py:148, web_server.py:27), for the given contents of the files
\* send_history.json, comsettings.json and code_library.txt.
InitKinds(hfile, sfile, lines, ks) ==
  /\ port_states = EmptyDict
  /\ port_data = EmptyDict
  /\ history = load_history(hfile)
  /\ history_file = hfile
  /\ com_settings = sfile
  /\ settings_file = sfile
  /\ settings_obj = [p \in DOMAIN sfile |-> FileObj(p)]
  /\ code_library = load_code_library(lines)
  /\ observers = <<"o1", "o2">>
  /\ received = [o \in ObserverIds |-> <<>>]
  /\ emitted = <<>>
  /\ published = <<>>
  /\ appended = [p \in Ports |-> <<>>]
  /\ clock = 1
  /\ pc = [t \in Threads |-> "idle"]
  /\ loc = [t \in Threads |-> NoLocals]
  /\ ret = [t \in Threads |-> Ret("none", "", FALSE, FALSE, <<>>)]
  /\ at_call = [t \in Threads |->
                  [history |-> load_history(hfile), port_data |-> EmptyDict, npub |-> 0]]
  /\ nops = 0
  /\ lock = "free"
  /\ loop = [t \in Threads |-> NoLoop]
  /\ kinds = ks
  /\ threads = EmptyDict
  /\ written = [p \in Ports |-> <<>>]

\* The same with callbacks that return.
InitFrom(hfile, sfile, lines) ==
  InitKinds(hfile, sfile, lines, [o \in ObserverIds |-> "returns"])

Init ==
  \E hfile \in HistoryFiles, sfile \in SettingsFiles :
    InitFrom(hfile, sfile, LibraryLines)

\* The texts callers send: lower case, four bytes typed without spaces,
\* odd length, a letter that is no hex digit, and a tab between two bytes.
SendTexts ==
  { <<"d","e">>,
    <<"D","E","A","D","B","E","E","F">>,
    <<"d","e","a">>,
    <<"d","g">>,
    <<"d","e","\t","a","d">> }

\* The calls thread t can make on the ports ps with the texts txs.
Call(t, ps, txs) ==
  \/ \E port \in ps : start_port_monitoring(t, port)
  \/ \E port \in ps : stop_port_monitoring(t, port)
  \/ \E port \in ps : add_port_data(t, port, "received", FormatBytes(Frame))
  \/ \E port \in ps : get_port_data(t, port)
  \/ \E port \in ps : clear_port_data(t, port)
  \/ get_history(t)
  \/ \E port \in ps, data \in txs : send_data(t, port, data)

\* The steps of a send_data call thread t is in.
SendStep(t) ==
  \/ send_insert(t)
  \/ send_check_len(t)
  \/ send_slice(t)
  \/ send_store(t)
  \/ send_save(t)
  \/ send_notify_history(t)
  \/ send_log(t)
  \/ send_notify_sent(t)

(***************************************************************************)
(* One caller thread: every call runs to its end before the next begins.   *)
(***************************************************************************)

\* Number of calls in a behaviour of one thread.
MaxSeqOps == 3

NextSeq ==
  \/ nops < MaxSeqOps /\ Call("t1", Ports, SendTexts)
  \/ SendStep("t1")

SpecSeq == Init /\ [][NextSeq]_vars

(***************************************************************************)
(* Two caller threads on one port.                                         *)
(***************************************************************************)

ConcTexts == { <<"d","e">>, <<"a","d">> }

\* Number of calls in a behaviour of two threads.
MaxOps == 2

Next ==
  \E t \in Threads :
    \/ nops < MaxOps /\ Call(t, {"X"}, ConcTexts)
    \/ SendStep(t)

Spec == Init /\ [][Next]_vars

(***************************************************************************)
(* Two caller threads on a monitored port whose buffer is one entry short  *)
(* of its cap, as it is after start_port_monitoring("X") and 999 frames.   *)
(* The event records start empty here: they hold what is published from   *)
(* this state on.                                                          *)
(***************************************************************************)

FilledLog(lib) ==
  [i \in 1..(LOG_CAP - 1) |-> LogEntry(lib, "received", FormatBytes(Frame), i)]

InitFull ==
  /\ port_states = [p \in {"X"} |-> [active |-> TRUE, settings |-> EmptyDict,
                                      obj |-> 0]]
  /\ port_data = [p \in {"X"} |-> FilledLog(load_code_library(LibraryLines))]
  /\ history = load_history(FullHistoryFile)
  /\ history_file = FullHistoryFile
  /\ com_settings = EmptyDict
  /\ settings_file = EmptyDict
  /\ settings_obj = EmptyDict
  /\ code_library = load_code_library(LibraryLines)
  /\ observers = <<"o1", "o2">>
  /\ received = [o \in ObserverIds |-> <<>>]
  /\ emitted = <<>>
  /\ published = <<>>
  /\ appended = [p \in Ports |->
                   IF p = "X" THEN FilledLog(load_code_library(LibraryLines)) ELSE <<>>]
  /\ clock = LOG_CAP
  /\ pc = [t \in Threads |-> "idle"]
  /\ loc = [t \in Threads |-> NoLocals]
  /\ ret = [t \in Threads |-> Ret("none", "", FALSE, FALSE, <<>>)]
  /\ at_call = [t \in Threads |->
                  [history |-> load_history(FullHistoryFile),
                   port_data |-> [p \in {"X"} |-> FilledLog(load_code_library(LibraryLines))],
                   npub |-> 0]]
  /\ nops = 0
  /\ lock = "free"
  /\ loop = [t \in Threads |-> NoLoop]
  /\ kinds = [o \in ObserverIds |-> "returns"]
  /\ threads = EmptyDict
  /\ written = [p \in Ports |-> <<>>]

NextFull ==
  \E t \in Threads :
    \/ nops < MaxOps /\ Call(t, {"X"}, {<<"a","d">>})
    \/ SendStep(t)

SpecFull == InitFull /\ [][NextFull]_vars

(***************************************************************************)
(* The same two threads and buffer, with callers that change the lists the *)
(* read operations returned to them.                                       *)
(***************************************************************************)

NextSnap ==
  \E t \in Threads :
    \/ nops < MaxOps /\ Call(t, {"X"}, {<<"a","d">>})
    \/ nops < MaxOps /\ \E grow \in BOOLEAN : edit_returned(t, grow)
    \/ SendStep(t)

SpecSnap == InitFull /\ [][NextSnap]_vars

(***************************************************************************)
(* One send_data call for every text up to a length, on a full history.    *)
(***************************************************************************)

\* Longest text sent.
MaxTextLen == 5

\* The characters of the texts: hex digits in both cases, a space, a tab
\* and a letter that is no hex digit.
TextChars == {"d", "E", "1", " ", "\t", "g"}

\* All texts of length n over TextChars.
TextsOfLen(n) == [1..n -> TextChars]

InitCodec == InitFrom(FullHistoryFile, EmptyDict, LibraryLines)

NextCodec ==
  \/ /\ nops = 0
     /\ \E n \in 0..MaxTextLen : \E data \in TextsOfLen(n) : send_data("t1", "X", data)
  \/ SendStep("t1")

SpecCodec == InitCodec /\ [][NextCodec]_vars

(***************************************************************************)
(* One add_port_data call per rule file and frame: annotate_data on every  *)
(* short frame for every one-line library.                                 *)
(***************************************************************************)

\* Longest frame annotated.
MaxFrameLen == 3

\* The byte values of the frames: AA, 12, CC, DD.
FrameBytes == {170, 18, 204, 221}

\* One-line rule files.
RuleFiles ==
  { << <<"A","A","*","C","C"," ","#"," ","t","e","s","t">> >>,
    << <<"A","A"," ","*"," ","C","C"," ","#"," ","t","e","s","t">> >>,
    << <<"1","2"," ","C","C"," ","#"," ","t","a","i","l">> >>,
    << <<"#"," ","A","A">> >> }

InitAnnot == \E lines \in RuleFiles : InitFrom(<<>>, EmptyDict, lines)

NextAnnot ==
  /\ nops = 0
  /\ \E n \in 1..MaxFrameLen : \E f \in [1..n -> FrameBytes] :
       add_port_data("t1", "X", "received", FormatBytes(f))

SpecAnnot == InitAnnot /\ [][NextAnnot]_vars

(***************************************************************************)
(* Two threads that call add_port_data, with callbacks that return or do   *)
(* not return. A thread that has begun a call goes on with it whenever it  *)
(* can (weak fairness); nothing makes a caller begin a call.               *)
(***************************************************************************)

\* Number of calls in a behaviour of the step-by-step publish loop.
MaxBusOps == 2

InitSlow ==
  \E ks \in [ObserverIds -> {"returns", "never_returns"}] :
    InitKinds(<<>>, EmptyDict, LibraryLines, ks)

\* The steps of an add_port_data call thread t is in, for callbacks that
\* return when they return at all.
ContinueSlow(t) ==
  \/ add_port_data_locked(t)
  \/ notify_next(t)
  \/ callback_return(t)
  \/ add_port_data_return(t)

NextSlow ==
  \E t \in Threads :
    \/ nops < MaxBusOps /\ \E port \in Ports : add_port_data_call(t, port)
    \/ ContinueSlow(t)

SpecSlow ==
  /\ InitSlow
  /\ [][NextSlow]_vars
  /\ \A t \in Threads : WF_vars(ContinueSlow(t))

(***************************************************************************)
(* Two threads that call add_port_data, add_observer and remove_observer,  *)
(* with callbacks that return, unsubscribe themselves or subscribe the     *)
(* callbacks that are not registered.                                      *)
(***************************************************************************)

InitSubs ==
  \E ks \in [ObserverIds -> {"returns", "removes_self", "adds_other"}] :
    InitKinds(<<>>, EmptyDict, LibraryLines, ks)

NextSubs ==
  \E t \in Threads :
    \/ nops < MaxBusOps /\ \E port \in Ports : add_port_data_call(t, port)
    \/ nops < MaxBusOps
         /\ \E o \in ObserverIds : ~InList(o, observers) /\ add_observer(t, o)
    \/ nops < MaxBusOps /\ \E o \in ObserverIds : remove_observer(t, o)
    \/ add_port_data_locked(t)
    \/ notify_next(t)
    \/ callback_return(t)
    \/ callback_remove_self(t)
    \/ callback_add_other(t)
    \/ add_port_data_return(t)

SpecSubs == InitSubs /\ [][NextSubs]_vars

(***************************************************************************)
(* Two threads that call add_port_data, with callbacks that return at once *)
(* or after a read operation of the coordinator. Weak fairness as above.   *)
(***************************************************************************)

InitReads ==
  \E ks \in [ObserverIds -> {"returns", "reads_port_data", "reads_history"}] :
    InitKinds(<<>>, EmptyDict, LibraryLines, ks)

\* The steps of an add_port_data call thread t is in, for callbacks that
\* read.
ContinueReads(t) ==
  \/ add_port_data_locked(t)
  \/ notify_next(t)
  \/ callback_return(t)
  \/ callback_read(t)
  \/ add_port_data_return(t)

NextReads ==
  \E t \in Threads :
    \/ nops < MaxBusOps /\ \E port \in Ports : add_port_data_call(t, port)
    \/ ContinueReads(t)

SpecReads ==
  /\ InitReads
  /\ [][NextReads]_vars
  /\ \A t \in Threads : WF_vars(ContinueReads(t))

(***************************************************************************)
(* Two threads that start, stop and configure one port.                    *)
(***************************************************************************)

\* Number of calls in a behaviour of the configuring threads.
MaxSettingsOps == 3

\* The configurations callers store.
SettingsInputs == {PortConfig, [PortConfig EXCEPT !.baudrate = 9600]}

NextSettings ==
  \E t \in Threads :
    \/ nops < MaxSettingsOps /\ start_port_monitoring(t, "X")
    \/ nops < MaxSettingsOps /\ stop_port_monitoring(t, "X")
    \/ nops < MaxSettingsOps
         /\ \E settings \in SettingsInputs : update_port_settings(t, "X", settings)
    \/ UpdateStep(t)

SpecSettings == Init /\ [][NextSettings]_vars

(***************************************************************************)
(* One caller thread that uses every operation on one port.                *)
(***************************************************************************)

\* Number of calls in a behaviour of the thread that uses every operation.
MaxApiOps == 3

\* The names callers give: one with blanks around it, and the empty one.
NameInputs == { <<" ", "a", " ">>, <<>> }

NextApi ==
  \/ nops < MaxApiOps /\ Call("t1", {"X"}, ConcTexts)
  \/ nops < MaxApiOps
       /\ \E settings \in SettingsInputs : update_port_settings("t1", "X", settings)
  \/ nops < MaxApiOps /\ \E name \in NameInputs : update_port_name("t1", "X", name)
  \/ SendStep("t1")
  \/ UpdateStep("t1")
  \/ NameStep("t1")

SpecApi == Init /\ [][NextApi]_vars

(***************************************************************************)
(* One caller thread that starts, configures and names one port.           *)
(***************************************************************************)

\* Number of calls in a behaviour of the configuring thread.
MaxConfigOps == 3

NextConfig ==
  \/ nops < MaxConfigOps /\ start_port_monitoring("t1", "X")
  \/ nops < MaxConfigOps
       /\ \E settings \in SettingsInputs : update_port_settings("t1", "X", settings)
  \/ nops < MaxConfigOps /\ \E name \in NameInputs : update_port_name("t1", "X", name)
  \/ UpdateStep("t1")
  \/ NameStep("t1")

SpecConfig == Init /\ [][NextConfig]_vars

(***************************************************************************)
(* Two producer threads on one port: add_port_data in steps, and the       *)
(* session started and stopped by a call that takes the lock when it is    *)
(* free and runs to its end. Every callback returns.                       *)
(***************************************************************************)

\* Number of calls in a behaviour of the two producers.
MaxOrderOps == 3

NextOrder ==
  \E t \in Threads :
    \/ nops < MaxOrderOps /\ add_port_data_call(t, "X")
    \/ nops < MaxOrderOps /\ lock = "free" /\ start_port_monitoring(t, "X")
    \/ nops < MaxOrderOps /\ lock = "free" /\ stop_port_monitoring(t, "X")
    \/ add_port_data_locked(t)
    \/ notify_next(t)
    \/ callback_return(t)
    \/ add_port_data_return(t)

SpecOrder == Init /\ [][NextOrder]_vars

(***************************************************************************)
(* One caller thread, and a history file that can fail to be written.      *)
(***************************************************************************)

\* Number of calls in a behaviour with a failing history file.
MaxFailOps == 2

NextFail ==
  \/ nops < MaxFailOps /\ Call("t1", {"X"}, SendTexts)
  \/ SendStep("t1")
  \/ send_save_fails("t1")

SpecFail == Init /\ [][NextFail]_vars

(***************************************************************************)
(* The desktop UI (thread t1) and a remote client (thread t2) start, stop  *)
(* and send on one port.                                                   *)
(***************************************************************************)

\* Number of calls in a behaviour of the desktop UI and the remote client.
MaxGuiOps == 2

NextGui ==
  \/ nops < MaxGuiOps /\ toggle_checked("t1", "X")
  \/ nops < MaxGuiOps /\ toggle_unchecked("t1", "X")
  \/ nops < MaxGuiOps /\ handle_start_port("t2", "X")
  \/ nops < MaxGuiOps /\ handle_stop_port("t2", "X")
  \/ nops < MaxGuiOps /\ \E t \in Threads, data \in ConcTexts : send_data(t, "X", data)
  \/ \E t \in Threads : SendStep(t)
  \/ serial_open("X")

SpecGui == Init /\ [][NextGui]_vars

(***************************************************************************)
(* One caller thread on one port, and observers that change the data of    *)
(* the events they have received.                                          *)
(***************************************************************************)

\* Number of calls in a behaviour with observers that edit.
MaxPayloadOps == 3

NextPayload ==
  \/ nops < MaxPayloadOps /\ start_port_monitoring("t1", "X")
  \/ nops < MaxPayloadOps /\ stop_port_monitoring("t1", "X")
  \/ nops < MaxPayloadOps /\ add_port_data("t1", "X", "received", FormatBytes(Frame))
  \/ nops < MaxPayloadOps
       /\ \E settings \in SettingsInputs : update_port_settings("t1", "X", settings)
  \/ nops < MaxPayloadOps /\ \E name \in NameInputs : update_port_name("t1", "X", name)
  \/ UpdateStep("t1")
  \/ NameStep("t1")
  \/ \E o \in ObserverIds : observer_edits_settings(o)
  \/ \E o \in ObserverIds : observer_edits_entry(o)

SpecPayload == Init /\ [][NextPayload]_vars

(***************************************************************************)
(* Properties                                                              *)
(***************************************************************************)

\* The number of events of a type for a port in the event sequence evs.
CountEvents(evs, type, port) ==
  Cardinality({i \in 1..Len(evs) : evs[i].type = type /\ evs[i].port = port})

\* The positions of evs, after the first n, that hold an event of the type.
EventsSince(evs, n, type) == {i \in (n + 1)..Len(evs) : evs[i].type = type}

\* C1: for every port, under every interleaving of start and stop calls of
\* the threads, the sessions opened and not yet closed number at most one
\* (one exactly when the registry holds the port, none otherwise); and a
\* start_port_monitoring call for a port that has a session returns False,
\* leaves the registry, the buffers and the event records as they are.
C1_OneSessionPerPort ==
  /\ [](\A p \in Ports :
          CountEvents(published, "port_started", p)
            - CountEvents(published, "port_stopped", p)
          = IF p \in DOMAIN port_states THEN 1 ELSE 0)
  /\ [][\A t \in Threads, p \in Ports :
          (start_port_monitoring(t, p) /\ p \in DOMAIN port_states)
            => /\ ret'[t].op = "start"
               /\ ret'[t].val = FALSE
               /\ ~ret'[t].exc
               /\ UNCHANGED <<port_states, port_data, published, received>>]_vars

\* One thread started X and the other was then refused.
C1_Witness ==
  /\ "X" \in DOMAIN port_states
  /\ ret["t1"].op = "start" /\ ret["t1"].port = "X" /\ ret["t1"].val
  /\ ret["t2"].op = "start" /\ ret["t2"].port = "X" /\ ~ret["t2"].val
  /\ CountEvents(published, "port_started", "X") = 1

\* The hex digit characters, in either case, and the value of each.
HexChars ==
  {"0","1","2","3","4","5","6","7","8","9",
   "a","b","c","d","e","f","A","B","C","D","E","F"}

HexVal(c) ==
  CASE c \in {"0"} -> 0 [] c \in {"1"} -> 1 [] c \in {"2"} -> 2 [] c \in {"3"} -> 3
    [] c \in {"4"} -> 4 [] c \in {"5"} -> 5 [] c \in {"6"} -> 6 [] c \in {"7"} -> 7
    [] c \in {"8"} -> 8 [] c \in {"9"} -> 9
    [] c \in {"a", "A"} -> 10 [] c \in {"b", "B"} -> 11 [] c \in {"c", "C"} -> 12
    [] c \in {"d", "D"} -> 13 [] c \in {"e", "E"} -> 14 [] c \in {"f", "F"} -> 15
    [] OTHER -> 16

IsHexChar(c) == c \in HexChars

NotBlank(c) == c # " "

\* The hex digits of a text, in order.
DigitsOf(text) == SelectSeq(text, IsHexChar)

\* The bytes a text of hex digits stands for, two digits a byte.
BytesOf(text) ==
  LET ds == DigitsOf(text)
  IN  [k \in 1..(Len(ds) \div 2) |-> 16 * HexVal(ds[2 * k - 1]) + HexVal(ds[2 * k])]

\* The canonical form of a text of hex digits: its digits in upper case,
\* two by two, with one space between the pairs.
UpperDigit(c) == HexDigits[HexVal(c) + 1]

CanonicalText(text) ==
  LET ds == DigitsOf(text)
      n == Len(ds) \div 2
  IN  [i \in 1..(IF n = 0 THEN 0 ELSE 3 * n - 1) |->
         IF i % 3 = 0 THEN " " ELSE UpperDigit(ds[i - (i \div 3)])]

\* A text made only of hex digits and spaces, with an even number of digits.
EvenHexText(text) ==
  /\ \A i \in 1..Len(text) : text[i] \in HexChars \cup {" "}
  /\ Len(DigitsOf(text)) % 2 = 0

\* C2 as stated: a text that, once its spaces are removed, has an odd
\* number of characters or a character that is no hex digit.
OddOrNonHex(text) ==
  LET s == SelectSeq(text, NotBlank)
  IN  Len(s) % 2 = 1 \/ \E i \in 1..Len(s) : s[i] \notin HexChars

\* A text bytes.fromhex takes once its spaces are removed: hex digits and
\* ASCII whitespace only, an even number of digits, and whitespace only
\* where a byte is complete.
PairedHexText(text) ==
  LET s == SelectSeq(text, NotBlank)
  IN  /\ \A i \in 1..Len(s) : s[i] \in HexChars \cup AsciiSpace
      /\ Len(DigitsOf(s)) % 2 = 0
      /\ \A i \in 1..Len(s) :
           s[i] \in AsciiSpace => Len(DigitsOf(SubSeq(s, 1, i))) % 2 = 0

\* Thread t has returned from a send_data call and made no further call.
SendDone(t) == pc[t] = "idle" /\ ret[t].op = "send"

\* Nothing has changed and nothing was published since the last call of
\* thread t began.
NoEffectSinceCall(t) ==
  /\ history = at_call[t].history
  /\ port_data = at_call[t].port_data
  /\ Len(published) = at_call[t].npub
  /\ \A o \in ObserverIds : Len(received[o]) = at_call[t].npub

\* C2 as stated (refuted): every send_data of a text that has, spaces
\* removed, an odd number of characters or a character that is no hex digit
\* is refused: it is never processed and it returns False.
C2_Original ==
  \A t \in Threads :
    /\ pc[t] # "idle" => ~OddOrNonHex(loc[t].data)
    /\ SendDone(t) /\ OddOrNonHex(ret[t].seq) => ~ret[t].val

\* C2 amended: every send_data of a text that is not, spaces removed, a
\* sequence of two-digit hex bytes with ASCII whitespace only between bytes
\* returns False, adds no log entry, leaves the history as it was and
\* publishes no event; no such text is ever processed.
C2_MalformedRejected ==
  \A t \in Threads :
    /\ pc[t] # "idle" => PairedHexText(loc[t].data)
    /\ SendDone(t) /\ ~PairedHexText(ret[t].seq)
         => /\ ~ret[t].val
            /\ ~ret[t].exc
            /\ NoEffectSinceCall(t)
            /\ history_file = FullHistoryFile

\* Texts with a tab inside a byte, of odd length and with a letter that is
\* no hex digit have been refused.
C2_Witness ==
  /\ SendDone("t1")
  /\ ~ret["t1"].val
  /\ ret["t1"].seq = <<"d", "\t", "E", "g", "1">>
  /\ ~PairedHexText(ret["t1"].seq)

\* The hex payload of a log entry text: the text in front of the
\* annotation annotate_data appended, if any.
HexPayload(text) ==
  LET cut == Find(<<" ", "(">>, text)
  IN  IF cut = 0 THEN text ELSE SubSeq(text, 1, cut - 1)

Occurrences(x, list) == Cardinality({i \in 1..Len(list) : list[i] = x})

\* The first n elements of a list, or all of it.
FirstN(list, n) == SubSeq(list, 1, IF Len(list) < n THEN Len(list) ELSE n)

\* A data_sent event for the canonical text c stands among the first n
\* published events: c was sent before.
SentBefore(c, n) ==
  \E i \in 1..n : published[i].type = "data_sent" /\ published[i].data.data = c

\* The number of history_updated events published since the last call of
\* thread t began.
HistoryEventsSinceCall(t) ==
  Cardinality(EventsSince(published, at_call[t].npub, "history_updated"))

\* C3 as stated (refuted): in a run of one thread, the first successful
\* send of a canonical text puts it at index 0 and publishes one
\* history_updated, every later send of it changes nothing in the history
\* and publishes none, and the text then stands exactly once in the history.
C3_Original ==
  SendDone("t1") /\ ret["t1"].val =>
    LET c == CanonicalText(ret["t1"].seq)
    IN  /\ Occurrences(c, history) = 1
        /\ IF ~SentBefore(c, at_call["t1"].npub)
             THEN /\ history # <<>>
                  /\ history[1] = c
                  /\ HistoryEventsSinceCall("t1") = 1
             ELSE /\ history = at_call["t1"].history
                  /\ HistoryEventsSinceCall("t1") = 0

\* C3 amended: in a run of one thread that starts from a history without
\* duplicates, a successful send of a canonical text that is not in the
\* history puts it at index 0 in front of the earlier entries (the oldest
\* dropped past 100) and publishes one history_updated; a successful send of
\* a text that is in the history leaves content and order of the history
\* unchanged and publishes no history_updated; either way the text then
\* stands exactly once in the history.
C3_HistoryDedup ==
  SendDone("t1") /\ ret["t1"].val =>
    LET c == CanonicalText(ret["t1"].seq)
        before == at_call["t1"].history
    IN  /\ Occurrences(c, history) = 1
        /\ IF Occurrences(c, before) = 0
             THEN /\ history = FirstN(<<c>> \o before, HISTORY_CAP)
                  /\ HistoryEventsSinceCall("t1") = 1
                  /\ published[at_call["t1"].npub + 1].type = "history_updated"
                  /\ published[at_call["t1"].npub + 1].data = history
             ELSE /\ history = before
                  /\ HistoryEventsSinceCall("t1") = 0

\* The same text was sent again with another text sent in between: it is
\* in the history once, behind the other text.
C3_Witness ==
  /\ SendDone("t1") /\ ret["t1"].val
  /\ nops = 3
  /\ ret["t1"].seq = <<"d", "e">>
  /\ SentBefore(<<"D", "E">>, at_call["t1"].npub)
  /\ history = << <<"D","E"," ","A","D"," ","B","E"," ","E","F">>, <<"D","E">> >>
  /\ HistoryEventsSinceCall("t1") = 0

\* The events in two sequences are the same, in the same order.
SameEvents(a, b) ==
  /\ Len(a) = Len(b)
  /\ \A i \in 1..Len(a) :
       /\ a[i].type = b[i].type
       /\ a[i].port = b[i].port
       /\ a[i].data = b[i].data

\* C7: with two observers registered, the first of which raises on every
\* event, in every run of one thread the second observer has received
\* every published event, in publication order; no exception leaves a
\* call, and every call returns what it returns when no observer fails: a
\* start without a session and a stop with one return True, and a send of
\* a well-formed text returns True.
C7_ObserverIsolation ==
  /\ [](/\ observers = <<"o1", "o2">>
        /\ SameEvents(received["o2"], published)
        /\ \A t \in Threads : ~ret[t].exc
        /\ SendDone("t1") /\ PairedHexText(ret["t1"].seq) => ret["t1"].val)
  /\ [][\A p \in Ports :
          /\ start_port_monitoring("t1", p) /\ p \notin DOMAIN port_states
               => ret'["t1"].val /\ p \in DOMAIN port_states'
          /\ stop_port_monitoring("t1", p) /\ p \in DOMAIN port_states
               => ret'["t1"].val /\ p \notin DOMAIN port_states']_vars

\* Three events were published, the first observer was called with each
\* (and raised), and the second received all three.
C7_Witness ==
  /\ Len(published) = 3
  /\ observers[1] \in Raising
  /\ SameEvents(received["o1"], published)
  /\ SameEvents(received["o2"], published)
  /\ published[1].type = "port_started"
  /\ published[3].type = "port_stopped"

\* The run so far is start_port_monitoring("X") followed by one finished
\* successful send_data("X", text) of a text whose canonical form was not
\* in the history.
StartThenSend ==
  /\ nops = 2
  /\ SendDone("t1") /\ ret["t1"].val /\ ret["t1"].port = "X"
  /\ published # <<>>
  /\ published[1].type = "port_started" /\ published[1].port = "X"
  /\ at_call["t1"].npub = 1
  /\ Occurrences(CanonicalText(ret["t1"].seq), at_call["t1"].history) = 0

\* C8: after start_port_monitoring("X") and one successful send_data("X", p)
\* of a new payload, the observers have received exactly one data_sent
\* event for X, carrying the canonical text of p; the history has that text
\* at index 0 and only there; and the buffer of X holds exactly one entry,
\* of direction sent.
C8_StartSendScenario ==
  StartThenSend =>
    LET c == CanonicalText(ret["t1"].seq)
    IN  /\ \A o \in ObserverIds :
             /\ CountEvents(received[o], "data_sent", "X") = 1
             /\ \A i \in 1..Len(received[o]) :
                  received[o][i].type = "data_sent" => received[o][i].data.data = c
        /\ history # <<>>
        /\ history[1] = c
        /\ Occurrences(c, history) = 1
        /\ "X" \in DOMAIN port_data
        /\ Len(port_data["X"]) = 1
        /\ port_data["X"][1].direction = "sent"

\* The scenario with the text DEADBEEF on an empty history.
C8_Witness ==
  /\ StartThenSend
  /\ ret["t1"].seq = <<"D","E","A","D","B","E","E","F">>
  /\ history = << <<"D","E"," ","A","D"," ","B","E"," ","E","F">> >>
  /\ received["o2"][4].type = "data_sent"
  /\ received["o2"][4].data.data = <<"D","E"," ","A","D"," ","B","E"," ","E","F">>

\* C4 (refuted by the code): starting from a history without duplicates,
\* under every interleaving of the send_data calls of two threads no text
\* stands twice in the history.
C4_NoDuplicates ==
  \A i, j \in 1..Len(history) : i # j => history[i] # history[j]

\* C5 (refuted by the code): every list get_history returned and every
\* history a history_updated event carried has at most 100 entries, also
\* when another thread is inside send_data.
C5_HistoryCapped ==
  /\ \A t \in Threads :
       ret[t].op = "get_history" => Len(ret[t].seq) <= HISTORY_CAP
  /\ \A i \in 1..Len(published) :
       published[i].type = "history_updated" => Len(published[i].data) <= HISTORY_CAP

\* The last n elements of a list, or all of it.
LastN(list, n) ==
  IF Len(list) <= n THEN list ELSE SubSeq(list, Len(list) - n + 1, Len(list))

\* C6: under every interleaving of the calls of two threads, the buffer of
\* every port holds, in append order, the last min(n, 1000) of the n
\* entries appended to it since it was last created or cleared, and that
\* is what get_port_data returns; no list it returned is longer than 1000.
C6_LogWindow ==
  /\ [](/\ \A p \in Ports :
             /\ Len(DictGet(port_data, p, <<>>)) <= LOG_CAP
             /\ DictGet(port_data, p, <<>>) = LastN(appended[p], LOG_CAP)
        /\ \A t \in Threads :
             ret[t].op = "get_port_data" => Len(ret[t].seq) <= LOG_CAP)
  /\ [][\A t \in Threads, p \in Ports :
          get_port_data(t, p) => ret'[t].seq = LastN(appended[p], LOG_CAP)]_vars

\* Both threads appended to the buffer of X, which had 999 entries: 1001
\* were appended, 1000 are held, the first is gone and the last is there.
C6_Witness ==
  /\ ret["t1"].op = "add" /\ ret["t2"].op = "add"
  /\ Len(appended["X"]) = LOG_CAP + 1
  /\ Len(port_data["X"]) = LOG_CAP
  /\ port_data["X"][1] = appended["X"][2]
  /\ port_data["X"][LOG_CAP] = appended["X"][LOG_CAP + 1]
  /\ port_data["X"][1] # appended["X"][1]

\* The text s begins with the text prefix.
StartsWith(s, prefix) ==
  Len(s) >= Len(prefix) /\ SubSeq(s, 1, Len(prefix)) = prefix

\* C10 (refuted by the code): with the library of the one rule line
\* "AA*CC # test", the entry logged for the frame AA 12 CC carries an
\* annotation that contains "test", and the entry logged for AA 12 DD is
\* the frame text unchanged.
C10_WildcardAnnotates ==
  (/\ Len(code_library) = 1
   /\ code_library[1].pattern = <<"A","A","*","C","C">>
   /\ code_library[1].comment = <<"t","e","s","t">>
   /\ "X" \in DOMAIN port_data
   /\ port_data["X"] # <<>>)
  => LET text == port_data["X"][1].data.text
     IN  /\ StartsWith(text, <<"A","A"," ","1","2"," ","C","C">>)
              => /\ Len(text) > 8
                 /\ Contains(<<"t","e","s","t">>, text)
         /\ StartsWith(text, <<"A","A"," ","1","2"," ","D","D">>)
              => text = <<"A","A"," ","1","2"," ","D","D">>

\* C11: stop_port_monitoring(P) with no session for P returns False,
\* changes no state and publishes no event; with a session for P it returns
\* True, removes the session and the log buffer of P (get_port_data(P) is
\* then empty), leaves the other ports as they are and publishes exactly one
\* port_stopped event for P.
C11_StopContract ==
  [][\A p \in Ports :
       stop_port_monitoring("t1", p)
         => /\ ret'["t1"].op = "stop" /\ ~ret'["t1"].exc
            /\ IF p \in DOMAIN port_states
                 THEN /\ ret'["t1"].val = TRUE
                      /\ p \notin DOMAIN port_states'
                      /\ p \notin DOMAIN port_data'
                      /\ DictGet(port_data', p, <<>>) = <<>>
                      /\ \A q \in Ports \ {p} :
                           /\ (q \in DOMAIN port_states') = (q \in DOMAIN port_states)
                           /\ DictGet(port_data', q, <<>>) = DictGet(port_data, q, <<>>)
                      /\ Len(published') = Len(published) + 1
                      /\ published'[Len(published')].type = "port_stopped"
                      /\ published'[Len(published')].port = p
                      /\ SubSeq(published', 1, Len(published)) = published
                      /\ \A o \in ObserverIds :
                           CountEvents(received'[o], "port_stopped", p)
                             = CountEvents(received[o], "port_stopped", p) + 1
                 ELSE /\ ret'["t1"].val = FALSE
                      /\ UNCHANGED <<port_states, port_data, history, history_file,
                                     com_settings, published, received>>]_vars

\* A stop that returned True for a port whose buffer held an entry.
C11_Witness ==
  /\ ret["t1"].op = "stop" /\ ret["t1"].port = "X" /\ ret["t1"].val
  /\ "X" \in DOMAIN at_call["t1"].port_data
  /\ Len(at_call["t1"].port_data["X"]) = 1
  /\ CountEvents(published, "port_stopped", "X") = 1
  /\ "X" \notin DOMAIN port_states
  /\ "X" \notin DOMAIN port_data

\* The positions of the messages with a name in the message sequence ms.
MessagesNamed(ms, name) == {i \in 1..Len(ms) : ms[i].name = name}

\* C12: whatever the callers do, no message the web server emits to its
\* clients has a raw_data field, and every data_sent message it emits holds
\* exactly the port and the canonical text of a data_sent event that was
\* published, one message per event and in the order of the events.
C12_NoRawBytesBroadcast ==
  /\ \A i \in 1..Len(emitted) : "raw_data" \notin DOMAIN emitted[i].payload
  /\ \A i \in MessagesNamed(emitted, "data_sent") :
       /\ DOMAIN emitted[i].payload = {"port", "data"}
       /\ \E j \in 1..Len(received[WebObserver]) :
            /\ received[WebObserver][j].type = "data_sent"
            /\ received[WebObserver][j].port = emitted[i].payload.port
            /\ received[WebObserver][j].data.data = emitted[i].payload.data
  /\ Cardinality(MessagesNamed(emitted, "data_sent"))
       = Cardinality({j \in 1..Len(received[WebObserver]) :
                        received[WebObserver][j].type = "data_sent"})

\* The web server was called with a data_sent event that holds four raw
\* bytes and has emitted its data_sent message.
C12_Witness ==
  /\ \E j \in 1..Len(received[WebObserver]) :
       /\ received[WebObserver][j].type = "data_sent"
       /\ received[WebObserver][j].data.raw_data = <<222, 173, 190, 239>>
  /\ \E i \in MessagesNamed(emitted, "data_sent") :
       emitted[i].payload = [port |-> "X", data |-> FormatBytes(<<222, 173, 190, 239>>)]

\* C13: the sequence a get_port_data or get_history call returned is a
\* snapshot: no step that leaves the caller's own reference alone (the
\* add_port_data, clear_port_data, stop_port_monitoring and send_data calls
\* of any thread) changes what the caller reads through it, and a caller
\* that appends to or deletes from the returned sequence leaves the buffers,
\* the history and the history file as they are.
C13_Snapshots ==
  [][\A t \in Threads :
       ret[t].op \in {"get_port_data", "get_history"}
         => /\ ret'[t] = ret[t] => Seen(t)' = Seen(t)
            /\ \A grow \in BOOLEAN :
                 edit_returned(t, grow)
                   => /\ UNCHANGED <<port_data, history, history_file, port_states>>
                      /\ Len(Seen(t)') = Len(Seen(t)) + (IF grow THEN 1 ELSE -1)]_vars

\* Thread t1 still reads the 999 entries it was returned after the other
\* thread cleared the buffer.
C13_Witness ==
  /\ ret["t1"].op = "get_port_data" /\ ret["t1"].port = "X"
  /\ Len(Seen("t1")) = LOG_CAP - 1
  /\ ret["t2"].op = "clear"
  /\ port_data["X"] = <<>>

\* Thread t is inside a callback that does not return.
Stuck(t) == pc[t] = "callback" /\ kinds[loop[t].cur] = "never_returns"

\* C14: when the callback of one observer does not return, every other
\* registered observer is still called, in the end, with every event that
\* is published, and every call of a thread that is not inside that
\* callback still returns in the end.
C14_SlowObserverIsolated ==
  /\ \A o \in ObserverIds : \A n \in 1..MaxBusOps :
       [](Len(published) >= n /\ kinds[o] = "returns"
            => <>(Len(received[o]) >= n))
  /\ \A t \in Threads :
       [](pc[t] # "idle" => <>(pc[t] = "idle" \/ Stuck(t)))

\* C15: when the loop of a publish has ended, every observer that was
\* registered when the loop began and was not removed while it ran has
\* been called exactly once by it, whatever the callbacks and the other
\* thread subscribed or unsubscribed meanwhile.
C15_NoObserverSkipped ==
  \A t \in Threads :
    pc[t] = "release"
      => \A o \in ObserverIds :
           (InList(o, loop[t].begin) /\ o \notin loop[t].removed)
             => Occurrences(o, loop[t].called) = 1

\* C16: under weak fairness, with callbacks that return and call at most
\* the read operations of the coordinator, every call a thread has begun
\* returns in the end, and the lock is free again and again.
C16_CallsTerminate ==
  /\ \A t \in Threads : [](pc[t] # "idle" => <>(pc[t] = "idle"))
  /\ []<>(lock = "free")

\* C17: when one stop_port_monitoring(X) and one add_port_data(X, ...) of
\* two threads have both returned, whatever their order: neither raised,
\* no session for X exists, and the entry, which is the entry built from
\* the frame as a whole, is the only entry of the buffer of X when the stop
\* took the lock first and is gone with the buffer when the append took it
\* first; no other port has a buffer.
C17_StopAgainstAppend ==
  \A t \in Threads : \A u \in Threads \ {t} :
    (/\ nops = 2 /\ pc[t] = "idle" /\ pc[u] = "idle"
     /\ ret[t].op = "stop" /\ ret[t].port = "X"
     /\ ret[u].op = "add" /\ ret[u].port = "X")
      => /\ ~ret[t].exc /\ ~ret[u].exc
         /\ "X" \notin DOMAIN port_states
         /\ Len(published) = 2
         /\ LET entry == LogEntry(code_library, "received", FormatBytes(Frame), LOG_CAP)
            IN  IF published[1].type = "port_stopped"
                  THEN /\ published[2] = Event("data_received", "X", entry)
                       /\ port_data = [p \in {"X"} |-> <<entry>>]
                  ELSE /\ published[1] = Event("data_received", "X", entry)
                       /\ published[2].type = "port_stopped"
                       /\ port_data = EmptyDict

\* The stop took the lock first and the entry of the append that was in
\* flight is the one entry of a new buffer of X.
C17_Witness ==
  /\ nops = 2
  /\ ret["t1"].op = "stop" /\ ret["t1"].port = "X" /\ ret["t1"].val
  /\ ret["t2"].op = "add" /\ ret["t2"].port = "X"
  /\ "X" \notin DOMAIN port_states
  /\ "X" \in DOMAIN port_data
  /\ Len(port_data["X"]) = 1

\* C18: every update_port_settings(P, cfg) call, whatever the start, stop
\* and update calls of the other thread do meanwhile, returns without
\* raising, has published exactly one settings_updated event for P, with
\* cfg, and returns in a state where a session of P, when there is one,
\* holds the configuration stored for P.
C18_UpdateUnderInterleaving ==
  [][\A t \in Threads :
       (pc[t] \in {"update_session", "update_notify"} /\ pc'[t] = "idle")
         => /\ ~ret'[t].exc
            /\ Len(published') = Len(published) + 1
            /\ published'[Len(published')]
                 = Event("settings_updated", loc[t].port, loc[t].settings)
            /\ loc[t].port \in DOMAIN com_settings'
            /\ loc[t].port \in DOMAIN port_states'
                 => port_states'[loc[t].port].settings = com_settings'[loc[t].port]]_vars

\* Two configuration dicts with the same keys and the same values.
SameSettings(a, b) ==
  /\ DOMAIN a = DOMAIN b
  /\ \A k \in DOMAIN a : a[k] = b[k]

\* C19: a start_port_monitoring(P) call that succeeds creates a session
\* whose configuration, and publishes a port_started event whose
\* configuration, is what get_port_settings(P) returns at that moment: the
\* stored configuration of P, or without one the default record (9600 baud,
\* 8 data bits, parity N, 1 stop bit).
C19_StartUsesPortSettings ==
  [][\A p \in Ports :
       (start_port_monitoring("t1", p) /\ p \notin DOMAIN port_states)
         => /\ ret'["t1"].val
            /\ SameSettings(port_states'[p].settings, get_port_settings(p))
            /\ published'[Len(published')].type = "port_started"
            /\ published'[Len(published')].port = p
            /\ SameSettings(published'[Len(published')].data, get_port_settings(p))]_vars

\* C20: for every port P, with or without a session or a buffer,
\* clear_port_data(P) leaves the buffer of P empty, publishes exactly one
\* data_cleared event for P, and changes no buffer of another port, no
\* session and not the history.
C20_ClearAlwaysPublishes ==
  [][\A p \in Ports :
       clear_port_data("t1", p)
         => /\ DictGet(port_data', p, <<>>) = <<>>
            /\ Len(published') = Len(published) + 1
            /\ published'[Len(published')] = Event("data_cleared", p, EmptyDict)
            /\ \A q \in Ports \ {p} :
                 DictGet(port_data', q, <<>>) = DictGet(port_data, q, <<>>)
            /\ UNCHANGED <<port_states, history, history_file>>]_vars

\* C23: in every reachable state a log buffer exists only for a port that
\* has a session or had one earlier: add_port_data and send_data on a port
\* that was never started create no buffer for it.
C23_BufferOnlyForStartedPorts ==
  \A p \in DOMAIN port_data :
    \/ p \in DOMAIN port_states
    \/ CountEvents(published, "port_started", p) > 0

\* The seven event types the specification lists.
SevenEventTypes ==
  {"port_started", "port_stopped", "data_received", "data_sent", "data_cleared",
   "history_updated", "settings_updated"}

C28_SnapshotIsStored ==
  (pc["t1"] = "idle" /\ "X" \in DOMAIN port_states)
    => SameSettings(port_states["X"].settings, DictGet(com_settings, "X", EmptyDict))

\* The data_received events for port X in a sequence of events, in order.
ReceivedForX(evs) ==
  SelectSeq(evs, LAMBDA e : e.type = "data_received" /\ e.port = "X")

\* Sequence a is the beginning of sequence b.
IsPrefix(a, b) ==
  /\ Len(a) <= Len(b)
  /\ \A i \in 1..Len(a) : a[i] = b[i]

\* C21: state is updated before it is announced, and announcements keep
\* the order of the state changes. An observer that looks at the registry
\* when it gets port_started for P finds a session for P, and none when it
\* gets port_stopped for P (the ports_update message the web observer sends
\* from the callback shows what it finds). For every observer, the
\* data_received events it has got for P are, in this order, the first of
\* the entries appended to the buffer of P, and all of them once no producer
\* holds the lock, for every interleaving of two producer threads.
C21_UpdatedThenAnnounced ==
  /\ \A i \in 1..Len(emitted) :
       emitted[i].name \in {"port_started", "port_stopped"}
         => /\ i < Len(emitted)
            /\ emitted[i + 1].name = "ports_update"
            /\ emitted[i + 1].payload[emitted[i].payload.port].active
                 = (emitted[i].name = "port_started")
  /\ \A o \in ObserverIds :
       /\ IsPrefix(ReceivedForX(received[o]), ReceivedForX(published))
       /\ lock = "free" => ReceivedForX(received[o]) = ReceivedForX(published)
  /\ \A i \in 1..Len(appended["X"]) :
       ReceivedForX(published)[Len(ReceivedForX(published)) - Len(appended["X"]) + i].data
         = appended["X"][i]

\* Both producers have appended to the buffer of a started port, the second
\* one after waiting for the lock, and the web observer has got the start and
\* both entries.
C21_Witness ==
  /\ nops = MaxOrderOps
  /\ ret["t1"].op = "add"
  /\ ret["t2"].op = "add"
  /\ Len(port_data["X"]) = 2
  /\ Len(ReceivedForX(received["o2"])) = 2
  /\ emitted[1].name = "port_started"

\* The texts of the 'sent' entries appended to the buffer of port X, in the
\* order of their data_received events.
SentLogged ==
  LET evs == SelectSeq(published,
                       LAMBDA e : /\ e.type = "data_received"
                                  /\ e.port = "X"
                                  /\ e.data.direction = "sent")
  IN  [i \in 1..Len(evs) |-> evs[i].data.data.text]

\* The texts of the data_sent events for port X as the buffer shows them,
\* in the order the observers got the events.
SentAnnounced ==
  LET evs == SelectSeq(published, LAMBDA e : e.type = "data_sent" /\ e.port = "X")
  IN  [i \in 1..Len(evs) |-> annotate_data(code_library, evs[i].data.data)]

\* C26: once two send_data calls to port P made from different threads have
\* returned true, their data_sent events have reached the observers in the
\* order of their 'sent' entries in the buffer of P and of their
\* data_received events.
C26_SentOrderIsLogOrder ==
  (/\ \A t \in Threads : pc[t] = "idle" /\ ret[t].op = "send" /\ ret[t].val)
    => SentAnnounced = SentLogged

\* C27: a send_data call that has returned false, for malformed hex or for
\* a failure writing the history file, has changed neither the history nor
\* any buffer and has published no event.
C27_FailedSendChangesNothing ==
  (pc["t1"] = "idle" /\ ret["t1"].op = "send" /\ ~ret["t1"].val)
    => /\ history = at_call["t1"].history
       /\ port_data = at_call["t1"].port_data
       /\ Len(published) = at_call["t1"].npub

\* C25: a port has a session if and only if it has a driver thread, and
\* whenever send_data(P, text) returns true for a port P that has a session,
\* the raw bytes are written to the serial device of P exactly once, whether
\* the session was started from the desktop UI or by a remote client.
C25_SentBytesAreWritten ==
  /\ [](\A p \in Ports : p \in DOMAIN port_states <=> p \in DOMAIN threads)
  /\ [][\A t \in Threads :
          (/\ pc[t] = "notify_sent"
           /\ pc'[t] = "idle"
           /\ ret'[t].val
           /\ loc[t].port \in DOMAIN port_states)
            => written'[loc[t].port] = Append(written[loc[t].port], loc[t].byte_data)]_vars

\* The coordinator holds the dict object obj, as a stored configuration or
\* as a session snapshot.
Referenced(obj, objs, sessions) ==
  \/ \E p \in DOMAIN objs : objs[p] = obj
  \/ \E p \in DOMAIN sessions : sessions[p].obj = obj

\* The content of the dict object obj the coordinator holds.
ContentOf(obj, stored, objs, sessions) ==
  IF \E p \in DOMAIN objs : objs[p] = obj
    THEN stored[CHOOSE p \in DOMAIN objs : objs[p] = obj]
    ELSE sessions[CHOOSE p \in DOMAIN sessions : sessions[p].obj = obj].settings

\* A step of a coordinator operation: a call begins or goes on.
CoordinatorStep == nops' # nops \/ pc' # pc

\* C22: no data handed to an observer is a reference into live coordinator
\* state. A change an observer makes to the settings record of a
\* port_started event or to the entry of a data_received event it has
\* received changes neither the history, the stored configuration, a session
\* snapshot nor a buffer; and no step of a coordinator operation changes the
\* content of the settings record of a port_started event an observer has
\* received.
C22_PayloadsAreCopies ==
  /\ [][~CoordinatorStep
          => UNCHANGED <<history, com_settings, port_states, port_data>>]_vars
  /\ [][CoordinatorStep
          => \A o \in ObserverIds : \A i \in 1..Len(received[o]) :
               (/\ received[o][i].type = "port_started"
                /\ Referenced(received[o][i].obj, settings_obj, port_states)
                /\ Referenced(received[o][i].obj, settings_obj', port_states'))
                 => SameSettings(
                      ContentOf(received[o][i].obj, com_settings, settings_obj,
                                port_states),
                      ContentOf(received[o][i].obj, com_settings', settings_obj',
                                port_states'))]_vars

====
